---- MODULE Spec2Model ----
(***************************************************************************)
(* Credential token store and credential-exchange handlers of the SOHO     *)
(* credentials provider (samples/python/src/roles/soho_credentials_provider)*)
(*                                                                         *)
(* Python strings are sequences of one-character strings, so that          *)
(* formatting (the token f-string), case folding and truthiness are        *)
(* computed, not assumed.  Python's None is the value None below, which is *)
(* no string: its only element is not a single character.                  *)
(***************************************************************************)
EXTENDS Integers, Sequences, FiniteSets, TLC

\* ------------------------------------------------------------------ bounds
\* The number of tokens the store may issue in a run.
MaxTokens == 2
\* The number of update_token calls that may be in flight at once.
MaxPending == 2
MaxAttempts == 3
\* The number of tokens the shopping agent may ask for in a run.
MaxShopTokens == 1

\* ------------------------------------------------------------- Python values
None == <<"None">>

\* A dict-valued result that is None (get_account, get_payment_method_by_alias).
NoneDict == [none |-> TRUE]

\* Python truthiness of a str | None value: None and "" are falsy.
Truthy(v) == v # None /\ v # <<>>

UpperCase == <<"A","B","C","D","E","F","G","H","I","J","K","L","M",
               "N","O","P","Q","R","S","T","U","V","W","X","Y","Z">>
LowerCase == <<"a","b","c","d","e","f","g","h","i","j","k","l","m",
               "n","o","p","q","r","s","t","u","v","w","x","y","z">>

\* The lower-case letter of each upper-case ASCII letter.
FoldTable ==
  [c \in {UpperCase[i] : i \in 1..26} |-> LowerCase[CHOOSE i \in 1..26 : UpperCase[i] = c]]

\* str.casefold on ASCII text: upper-case letters fold, every other character
\* is kept.
casefold_char(c) == IF c \in DOMAIN FoldTable THEN FoldTable[c] ELSE c

casefold(s) == [i \in 1..Len(s) |-> casefold_char(s[i])]

Digits == <<"0","1","2","3","4","5","6","7","8","9">>

\* str(n) for a natural number n, as the f-string formats len(_token_db).
RECURSIVE str(_)
str(n) == IF n < 10 THEN <<Digits[n + 1]>>
          ELSE str(n \div 10) \o <<Digits[(n % 10) + 1]>>

\* ------------------------------------------------------- the account database
USER_EMAIL == <<"u","s","e","r","@","e","x","a","m","p","l","e",".","c","o","m">>
BUGS_EMAIL == <<"b","u","g","s","b","u","n","n","y","@","g","m","a","i","l",".","c","o","m">>

ALIAS_PAY_IN_FULL ==
  <<"S","O","H","O"," ","C","r","e","d","i","t"," ","-"," ",
    "P","a","y"," ","i","n"," ","F","u","l","l">>
ALIAS_PAY_IN_4 ==
  <<"S","O","H","O"," ","C","r","e","d","i","t"," ","-"," ",
    "P","a","y"," ","i","n"," ","4">>
ALIAS_PAY_IN_12 ==
  <<"S","O","H","O"," ","C","r","e","d","i","t"," ","-"," ",
    "1","2"," ","M","o","n","t","h"," ","P","l","a","n">>

\* _soho_account_db: per account the user id, the borrower address, the
\* shipping address, the credit profile (money in cents) and the payment
\* methods, in the insertion order of the dict (the order .values() iterates
\* in).  No account has a "shipping_addresses" entry.
soho_account_db ==
  (USER_EMAIL :> [user_id |-> "user_123",
                  borrower_address |-> "0x742d35Cc6634C0532925a3b844Bc9e7595f0bEb",
                  shipping_address |->
                    [recipient |-> "John Smith", organization |-> "",
                     address_line |-> <<"123 Main St">>, city |-> "San Francisco",
                     region |-> "CA", postal_code |-> "94105", country |-> "US",
                     phone_number |-> "+1-555-0100"],
                  credit_profile |->
                    [credit_limit |-> 500000, available_credit |-> 413942,
                     outstanding_debt |-> 86058, credit_score |-> 750],
                  payment_methods |->
                    << [type |-> "SOHO_CREDIT", alias |-> ALIAS_PAY_IN_FULL, plan_id |-> "pay_in_full"],
                       [type |-> "SOHO_CREDIT", alias |-> ALIAS_PAY_IN_4, plan_id |-> "pay_in_4"],
                       [type |-> "SOHO_CREDIT", alias |-> ALIAS_PAY_IN_12, plan_id |-> "pay_in_12"] >>])
  @@
  (BUGS_EMAIL :> [user_id |-> "user_bugs",
                  borrower_address |-> "0x1234567890abcdef1234567890abcdef12345678",
                  shipping_address |->
                    [recipient |-> "Bugs Bunny", organization |-> "Looney Tunes",
                     address_line |-> <<"456 Carrot Lane">>, city |-> "Los Angeles",
                     region |-> "CA", postal_code |-> "90001", country |-> "US",
                     phone_number |-> "+1-555-0200"],
                  credit_profile |->
                    [credit_limit |-> 300000, available_credit |-> 250000,
                     outstanding_debt |-> 50000, credit_score |-> 720],
                  payment_methods |->
                    << [type |-> "SOHO_CREDIT", alias |-> ALIAS_PAY_IN_FULL, plan_id |-> "pay_in_full"],
                       [type |-> "SOHO_CREDIT", alias |-> ALIAS_PAY_IN_4, plan_id |-> "pay_in_4"] >>])

\* The module-level dict _soho_account_db as the process holds it; it starts
\* as soho_account_db.
VARIABLE account_db

\* get_account: the account, or None.
get_account(email_address) ==
  IF email_address \in DOMAIN account_db
    THEN account_db[email_address]
    ELSE NoneDict

\* Outcomes of a call: a returned value, or a raised ValueError with its message.
Ok(v) == [outcome |-> "ok", msg |-> "", result |-> v]
Raise(m) == [outcome |-> "ValueError", msg |-> m, result |-> NoneDict]

\* get_account_payment_methods: raises for an unknown account.
get_account_payment_methods(email_address) ==
  IF get_account(email_address) = NoneDict
    THEN Raise("Account not found")
    ELSE Ok(get_account(email_address).payment_methods)

\* get_account_shipping_address
get_account_shipping_address(email_address) ==
  IF get_account(email_address) = NoneDict
    THEN Raise("Account not found")
    ELSE Ok(get_account(email_address).shipping_address)

\* get_credit_profile
get_credit_profile(email_address) ==
  IF get_account(email_address) = NoneDict
    THEN Raise("Account not found")
    ELSE Ok(get_account(email_address).credit_profile)

\* get_borrower_address
get_borrower_address(email_address) ==
  IF get_account(email_address) = NoneDict
    THEN Raise("Account not found")
    ELSE Ok(get_account(email_address).borrower_address)

\* get_payment_method_by_alias: the first method whose alias matches, compared
\* case-folded; None when no method matches; raises for an unknown account.
get_payment_method_by_alias(email_address, alias) ==
  LET pm == get_account_payment_methods(email_address) IN
  IF pm.outcome # "ok" THEN pm
  ELSE LET methods == pm.result
           hits == {i \in 1..Len(methods) : casefold(methods[i].alias) = casefold(alias)}
       IN IF hits = {} THEN Ok(NoneDict)
          ELSE Ok(methods[CHOOSE i \in hits : \A j \in hits : i <= j])

\* ------------------------------------------------------------ the token store
VARIABLES
  token_db,   \* _token_db: token -> {email_address, payment_method_alias, payment_mandate_id}
  issued,     \* the return values of create_token, in call order
  last,       \* the most recent completed call: its arguments and its outcome
  pending,    \* update_token calls that were requested and have not run yet
  mc,         \* the payment processor's mandate completion: the attempt in
              \* progress or the last one, and the task the caller holds
  state       \* tool_context.state of the shopping agent

vars == <<token_db, issued, last, pending, mc, account_db, state>>

TOKEN_PREFIX == <<"s","o","h","o","_","t","o","k","e","n","_">>

\* Mutant of token_value (C7): the token omits the count of issued tokens.
token_value_no_counter(n, email_address) == TOKEN_PREFIX \o <<"_">> \o email_address

\* f"soho_token_{len(_token_db)}_{email_address}"
token_value(n, email_address) == TOKEN_PREFIX \o str(n) \o <<"_">> \o email_address

\* dict item assignment d[k] = v: adds the key or replaces its value.
dict_set(d, k, v) == [x \in (DOMAIN d) \cup {k} |-> IF x = k THEN v ELSE d[x]]

\* create_token: never raises; returns the token and the store after the call.
create_token(db, email_address, payment_method_alias) ==
  LET token == token_value(Cardinality(DOMAIN db), email_address) IN
  [token |-> token,
   db |-> dict_set(db, token,
                   [email_address |-> email_address,
                    payment_method_alias |-> payment_method_alias,
                    payment_mandate_id |-> None])]

\* Mutant of update_token (C11): the id is stored on every unbound token of the
\* account that owns the presented token.
update_token_by_account(db, token, payment_mandate_id) ==
  IF token \notin DOMAIN db
    THEN [outcome |-> "ValueError", msg |-> "Token not found", db |-> db]
  ELSE IF Truthy(db[token].payment_mandate_id)
    THEN [outcome |-> "ok", msg |-> "", db |-> db]
  ELSE [outcome |-> "ok", msg |-> "",
        db |-> [t \in DOMAIN db |->
                  IF /\ db[t].email_address = db[token].email_address
                     /\ ~Truthy(db[t].payment_mandate_id)
                    THEN [db[t] EXCEPT !.payment_mandate_id = payment_mandate_id]
                    ELSE db[t]]]

\* Mutant of update_token (C9): an unknown token gets a fresh entry instead of
\* an error, as dict.setdefault would do.
update_token_upsert(db, token, payment_mandate_id) ==
  IF token \notin DOMAIN db
    THEN [outcome |-> "ok", msg |-> "",
          db |-> dict_set(db, token, [email_address |-> None,
                                      payment_method_alias |-> None,
                                      payment_mandate_id |-> payment_mandate_id])]
  ELSE IF Truthy(db[token].payment_mandate_id)
    THEN [outcome |-> "ok", msg |-> "", db |-> db]
  ELSE [outcome |-> "ok", msg |-> "",
        db |-> [db EXCEPT ![token].payment_mandate_id = payment_mandate_id]]

\* update_token: raises for an unknown token; returns without writing when the
\* stored payment_mandate_id is truthy; otherwise stores the given id.
update_token(db, token, payment_mandate_id) ==
  IF token \notin DOMAIN db
    THEN [outcome |-> "ValueError", msg |-> "Token not found", db |-> db]
  ELSE IF Truthy(db[token].payment_mandate_id)
    THEN [outcome |-> "ok", msg |-> "", db |-> db]
  ELSE [outcome |-> "ok", msg |-> "",
        db |-> [db EXCEPT ![token].payment_mandate_id = payment_mandate_id]]

\* Mutant of verify_token (C3): the presented mandate id is not compared with
\* the stored one.
verify_token_no_mandate_check(db, token, payment_mandate_id) ==
  IF token \notin DOMAIN db THEN Raise("Invalid token")
  ELSE get_payment_method_by_alias(db[token].email_address,
                                   db[token].payment_method_alias)

\* verify_token: _token_db.get(token, {}) is falsy exactly for an unknown token
\* (stored entries have three keys); then the != comparison of the stored id
\* with the presented one; then the alias lookup, whose outcome is returned.
verify_token(db, token, payment_mandate_id) ==
  IF token \notin DOMAIN db THEN Raise("Invalid token")
  ELSE IF db[token].payment_mandate_id # payment_mandate_id THEN Raise("Invalid token")
  ELSE get_payment_method_by_alias(db[token].email_address,
                                   db[token].payment_method_alias)

\* ------------------------------------------------------------------- inputs
NOBODY_EMAIL == <<"1","_","n","o","@","x">>

ALIAS_PAY_IN_12_LOWER ==
  <<"s","o","h","o"," ","c","r","e","d","i","t"," ","-"," ",
    "1","2"," ","m","o","n","t","h"," ","p","l","a","n">>

\* USER_EMAIL has the 12 month plan (under an alias that differs in case),
\* BUGS_EMAIL is an account without it, NOBODY_EMAIL is no account.
EmailInputs == {USER_EMAIL, BUGS_EMAIL, NOBODY_EMAIL}
AliasInputs == {ALIAS_PAY_IN_12_LOWER}
\* Mandate ids are strings; the empty string is one of them.
MandateIds == {<<>>, <<"m","1">>}
MandateInputs == MandateIds \cup {None}

\* The tokens a caller may present: every issued one, and a well-formed token
\* that this store has not issued.
TokenInputs == (DOMAIN token_db) \cup {token_value(Cardinality(DOMAIN token_db), USER_EMAIL)}

\* The record of a call.  args are the data parts of a handler's request
\* other than user_email.  For handle_payment_receipt, receipt is the payment
\* receipt of the request and calls are the requests it made to the
\* settlement API, in order.  For update_token, prior is the payment_mandate_id the
\* entry held when the call ran (None for an unknown token) and others are the
\* calls still in flight when it ran.
NoCall == [op |-> "none", email |-> None, alias |-> None, token |-> None, mid |-> None,
           outcome |-> "none", msg |-> "", result |-> NoneDict,
           artifacts |-> <<>>, completes |-> 0, prior |-> None, others |-> {},
           receipt |-> NoneDict, calls |-> <<>>, args |-> NoneDict]

\* The stored payment_mandate_id of a token, None for a token the store lacks.
stored_mandate_id(db, token) ==
  IF token \in DOMAIN db THEN db[token].payment_mandate_id ELSE None

\* ------------------------------------------- mandate completion: its data
\* The keys of the data parts of a payment request.
PAYMENT_MANDATE_DATA_KEY == "ap2.mandates.PaymentMandate"
CHALLENGE_RESPONSE_KEY == "challenge_response"

\* The challenge response that is accepted.
EXPECTED_CHALLENGE == "123"

\* The message of the error raised when the provider's response has no payment
\* method data, and that message as the executor surfaces it.
FAILED_TO_FIND_MESSAGE == "Failed to find the payment method data."
surfaced_error(message) == "An error occurred: " \o message

\* A payment mandate, reduced to what the flow reads: its id, the method name
\* of its payment response and the token value of the response's details.
payment_mandate(method_name, token_value_) ==
  [payment_mandate_id |-> <<"m","1">>, method_name |-> method_name,
   token_value |-> token_value_]

\* The token of the card mandate: one the credential store has not issued.
TEST_TOKEN == <<"t","e","s","t">>
CardMandate == payment_mandate("CARD", TEST_TOKEN)
\* The mandate of the logged request: SOHO_CREDIT with the first token of
\* user@example.com.
SohoMandate == payment_mandate("SOHO_CREDIT", token_value(0, USER_EMAIL))

\* data_parts as a mapping of key to value, and the lookup of a key in it
\* (None-like results are spelled per key by the callers).
data_parts_of(mandates, challenges) ==
  [k \in {PAYMENT_MANDATE_DATA_KEY : m \in mandates} \cup
          {CHALLENGE_RESPONSE_KEY : c \in challenges} |->
     IF k = PAYMENT_MANDATE_DATA_KEY THEN CHOOSE m \in mandates : TRUE
     ELSE CHOOSE c \in challenges : TRUE]

DataPartsInputs ==
  {data_parts_of(ms, cs) : ms \in {{}, {CardMandate}, {SohoMandate}},
                           cs \in {{}, {"123"}, {"999"}}}

\* The artifacts of the provider's response: a list, or None.
artifacts_none == [is_none |-> TRUE, items |-> <<>>]
artifacts_list(items) == [is_none |-> FALSE, items |-> items]
text_part == [kind |-> "text", data |-> NoneDict]
data_part(data) == [kind |-> "data", data |-> data]
CREDENTIAL_DATA == [payment_credential |-> "soho_credential_xyz123"]

ArtifactsInputs ==
  {artifacts_none,
   artifacts_list(<<>>),
   artifacts_list(<<[parts |-> <<>>]>>),
   artifacts_list(<<[parts |-> <<text_part>>]>>),
   artifacts_list(<<[parts |-> <<text_part, data_part(CREDENTIAL_DATA)>>]>>)}

\* The data parts of a list of artifacts, in order.
RECURSIVE data_parts_in(_)
data_parts_in(items) ==
  IF items = <<>> THEN <<>>
  ELSE SelectSeq(Head(items).parts, LAMBDA p : p.kind = "data")
         \o data_parts_in(Tail(items))

\* The first structured payload of the response's artifacts, if there is one.
has_payment_method_data(artifacts) ==
  /\ ~artifacts.is_none
  /\ data_parts_in(artifacts.items) # <<>>
get_first_data_part(artifacts) == Head(data_parts_in(artifacts.items)).data

\* Before the first payment request.  task is the state of the task the caller
\* holds and challenges the number of challenges made on it; the other
\* fields belong to the attempt: requests counts the credential requests sent,
\* responses holds the artifacts received, raised the message of a raised error.
NoAttempt ==
  [attempts |-> 0, task |-> "none", phase |-> "none", running |-> FALSE,
   data_parts |-> <<>>, current_task |-> "none", mandate |-> NoneDict,
   challenge_response |-> "", challenges |-> 0, requests |-> 0,
   outstanding |-> FALSE, responses |-> <<>>, raised |-> "",
   credential |-> NoneDict, signals |-> <<>>]

\* A key of tool_context.state: absent, or stored with a value.
Absent == [absent |-> TRUE]
Stored(v) == [absent |-> FALSE, v |-> v]

\* tool_context.state before the first tool call.
NoState ==
  [cart_mandate |-> Absent, shipping_address |-> Absent, bnpl_quote |-> Absent,
   selected_payment_plan |-> Absent, credit_authorization_token |-> Absent,
   biometric_approval |-> Absent, payment_credential_token |-> Absent,
   payment_mandate |-> Absent, signed_payment_mandate |-> Absent]

Init ==
  /\ token_db = <<>>
  /\ issued = <<>>
  /\ last = NoCall
  /\ pending = {}
  /\ mc = NoAttempt
  /\ account_db = soho_account_db
  /\ state = NoState

\* ------------------------------------------------------------------ actions
\* A direct call of account_manager.create_token.
CreateToken(email_address, payment_method_alias) ==
  /\ Cardinality(DOMAIN token_db) < MaxTokens
  /\ LET r == create_token(token_db, email_address, payment_method_alias) IN
       /\ token_db' = r.db
       /\ issued' = Append(issued, r.token)
       /\ last' = [NoCall EXCEPT !.op = "create_token", !.email = email_address,
                                 !.alias = payment_method_alias, !.token = r.token,
                                 !.outcome = "ok"]
  /\ UNCHANGED <<pending, mc, account_db, state>>

\* The effect of one update_token call on the store and on the call record.
run_update_token(token, payment_mandate_id, in_flight) ==
  LET r == update_token(token_db, token, payment_mandate_id) IN
    /\ token_db' = r.db
    /\ last' = [NoCall EXCEPT !.op = "update_token", !.token = token,
                              !.mid = payment_mandate_id,
                              !.outcome = r.outcome, !.msg = r.msg,
                              !.prior = stored_mandate_id(token_db, token),
                              !.others = in_flight]

\* A call of account_manager.update_token, run to completion.
UpdateToken(token, payment_mandate_id) ==
  /\ run_update_token(token, payment_mandate_id, {})
  /\ UNCHANGED <<issued, pending, mc, account_db, state>>

\* The caller slots with no update_token call in flight.
free_callers == (1..MaxPending) \ {c.caller : c \in pending}

\* A request that will call update_token arrives: its coroutine is scheduled on
\* the event loop and has not run yet.
UpdateTokenRequest(caller, token, payment_mandate_id) ==
  /\ caller \in free_callers
  /\ \A c \in free_callers : caller <= c
  /\ pending' = pending \cup
       {[caller |-> caller, token |-> token, mid |-> payment_mandate_id]}
  /\ UNCHANGED <<token_db, issued, last, mc, account_db, state>>

\* The event loop runs one scheduled update_token call, in any order.  The
\* function has no await, so its check and its write are one step.
UpdateTokenRun(call) ==
  /\ call \in pending
  /\ pending' = pending \ {call}
  /\ run_update_token(call.token, call.mid, pending \ {call})
  /\ UNCHANGED <<issued, mc, account_db, state>>

\* Mutant of VerifyToken (C4): the lookup consumes the entry, as
\* _token_db.pop(token, {}) would do.
VerifyToken_pop(token, payment_mandate_id) ==
  /\ LET r == verify_token(token_db, token, payment_mandate_id) IN
       last' = [NoCall EXCEPT !.op = "verify_token", !.token = token,
                              !.mid = payment_mandate_id,
                              !.outcome = r.outcome, !.msg = r.msg, !.result = r.result]
  /\ token_db' = [t \in (DOMAIN token_db) \ {token} |-> token_db[t]]
  /\ UNCHANGED <<issued, pending, mc, account_db, state>>

\* A call of account_manager.verify_token.
VerifyToken(token, payment_mandate_id) ==
  /\ LET r == verify_token(token_db, token, payment_mandate_id) IN
       last' = [NoCall EXCEPT !.op = "verify_token", !.token = token,
                              !.mid = payment_mandate_id,
                              !.outcome = r.outcome, !.msg = r.msg, !.result = r.result]
  /\ UNCHANGED <<token_db, issued, pending, mc, account_db, state>>

\* handle_create_payment_credential_token, one request from its first line to
\* its return or raise.  find_data_part yields None for a key that is absent.
\* The artifact and the completion signal follow the store update.
create_payment_credential_token_request(user_email, payment_method_alias) ==
  LET req == [NoCall EXCEPT !.op = "handle_create_payment_credential_token",
                            !.email = user_email, !.alias = payment_method_alias]
      pm == get_payment_method_by_alias(user_email, payment_method_alias)
      r == create_token(token_db, user_email, payment_method_alias)
      unchanged(call) == [call |-> call, db |-> token_db, issued |-> issued]
  IN
  IF ~Truthy(user_email) \/ ~Truthy(payment_method_alias)
    THEN unchanged([req EXCEPT !.outcome = "ValueError",
                       !.msg = "user_email and payment_method_alias are required"])
  ELSE IF pm.outcome # "ok"
    THEN unchanged([req EXCEPT !.outcome = pm.outcome, !.msg = pm.msg])
  ELSE IF pm.result = NoneDict
    THEN unchanged([req EXCEPT !.outcome = "ValueError",
                                !.msg = "Payment method not found"])
  ELSE [db |-> r.db,
        issued |-> Append(issued, r.token),
        call |-> [req EXCEPT
                 !.outcome = "ok", !.token = r.token,
                 !.artifacts = << [payment_credential_token |->
                                     [type |-> "soho_credit",
                                      value |-> r.token,
                                      borrower_address |-> get_borrower_address(user_email).result,
                                      plan_id |-> pm.result.plan_id]] >>,
                 !.completes = 1]]

\* The handler serving a request of its own.
HandleCreatePaymentCredentialToken(user_email, payment_method_alias) ==
  /\ Cardinality(DOMAIN token_db) < MaxTokens
  /\ LET r == create_payment_credential_token_request(user_email, payment_method_alias)
     IN /\ token_db' = r.db
        /\ issued' = r.issued
        /\ last' = r.call
  /\ UNCHANGED <<pending, mc, account_db, state>>

\* ------------------------------------------------------ payment receipts
\* Amounts are counted in cents.  The ceiling of handle_payment_receipt,
\* 100.00, is 10000 cents.
CEILING_CENTS == 10000
MICROS_PER_CENT == 10000

\* The amount of a payment receipt: a dict with a value, a bare number, a dict
\* whose value is None, or no amount at all.
amount_dict(cents) == [kind |-> "dict", cents |-> cents]
amount_number(cents) == [kind |-> "number", cents |-> cents]
amount_null == [kind |-> "null", cents |-> 0]
amount_absent == [kind |-> "absent", cents |-> 0]

\* 0.00, 2.01, 99.99, 100.00 and 100.01.
AmountInputs == {0, 201, 9999, 10000, 10001}
ReceiptInputs ==
  {NoneDict} \cup
  {[amount |-> a] : a \in {amount_dict(c) : c \in AmountInputs}
                          \cup {amount_number(c) : c \in AmountInputs}
                          \cup {amount_null, amount_absent}}

\* What the login request and the pay request to the settlement API can come
\* to: an exception of the client, or a response with a status code (and,
\* for a login answered with 200, with or without an access token).
LoginOutcomes == {"ConnectError", "RequestError", "Exception",
                  "401", "200 without accessToken", "200"}
PayOutcomes == {"ConnectError", "RequestError", "Exception", "500", "200", "201"}

\* payment_receipt_data.get("amount", {}) and the float made of it: the
\* default {} has no value, which reads as 0; float(None) raises.
amount_usd(payment_receipt_data) ==
  IF payment_receipt_data.amount.kind = "null"
    THEN [outcome |-> "TypeError", cents |-> 0]
    ELSE [outcome |-> "ok", cents |-> payment_receipt_data.amount.cents]

\* Mutant of exceeds_limit (C20): the ceiling itself is let through.
exceeds_limit_above_only(cents) == cents > CEILING_CENTS

\* amount_usd >= 100.00
exceeds_limit(cents) == cents >= CEILING_CENTS

\* The amounts among AmountInputs whose float product with 1_000_000 falls
\* just below the whole number, so that int() yields one less: 2.01.
FloatProductBelow == {201}

\* str(int(amount_usd * 1_000_000))
amount_wei(cents) ==
  str(IF cents \in FloatProductBelow THEN cents * MICROS_PER_CENT - 1
      ELSE cents * MICROS_PER_CENT)

\* Mutant of has_access_token (C35): a login answered with 200 counts as a
\* token whatever its body.
has_access_token_any_body(login) == TRUE

\* access_token = login_data.get("data", {}).get("accessToken"), truthy.
has_access_token(login) == login = "200"

error_artifact(error_msg) == [error |-> error_msg, status |-> "failed"]

\* The two requests to the settlement API, each with what it came to.
login_call(outcome) ==
  [endpoint |-> "/api/v1/auth/login", amount |-> <<>>, outcome |-> outcome]
pay_call(cents, outcome) ==
  [endpoint |-> "/api/v1/agent/pay", amount |-> amount_wei(cents), outcome |-> outcome]

\* Mutant of receipt_failed (C21): the failure leaves the handler as an
\* exception, with no artifact and no completion.
receipt_failed_propagates(req, error_msg, calls) ==
  [req EXCEPT !.outcome = "Exception", !.msg = error_msg, !.calls = calls]

\* A failure of the settlement, captured: the error artifact, then the
\* completion signal (at the return of the branch, or after the except
\* clause at the end of the handler).
receipt_failed(req, error_msg, calls) ==
  [req EXCEPT !.outcome = "ok", !.artifacts = <<error_artifact(error_msg)>>,
              !.completes = 1, !.calls = calls]

\* Mutant of receipt_paid (C22): the success branch signals completion itself
\* and the end of the handler signals it again.
receipt_paid_completes_twice(req, cents, calls) ==
  [req EXCEPT !.outcome = "ok",
              !.artifacts = <<[status |-> "success", amount_usd |-> cents,
                               amount_wei |-> amount_wei(cents),
                               payment_plan_id |-> "0"]>>,
              !.completes = 2, !.calls = calls]

\* A settled payment: the success artifact, then the completion signal at the
\* end of the handler.
receipt_paid(req, cents, calls) ==
  [req EXCEPT !.outcome = "ok",
              !.artifacts = <<[status |-> "success", amount_usd |-> cents,
                               amount_wei |-> amount_wei(cents),
                               payment_plan_id |-> "0"]>>,
              !.completes = 1, !.calls = calls]

\* handle_payment_receipt, one request from its first line to its return or
\* raise.  login and pay are what the two requests come to, if they are made.
HandlePaymentReceipt(payment_receipt_data, login, pay) ==
  /\ LET req == [NoCall EXCEPT !.op = "handle_payment_receipt",
                               !.receipt = payment_receipt_data]
         usd == amount_usd(payment_receipt_data)
         one == <<login_call(login)>>
         two == <<login_call(login), pay_call(usd.cents, pay)>>
     IN
     last' =
       IF payment_receipt_data = NoneDict
         THEN [req EXCEPT !.outcome = "ok", !.completes = 1]
       ELSE IF usd.outcome # "ok"
         THEN [req EXCEPT !.outcome = usd.outcome]
       ELSE IF exceeds_limit(usd.cents)
         THEN receipt_failed(req, "Payment amount exceeds $100 limit for mock API", <<>>)
       ELSE IF login = "ConnectError"
         THEN receipt_failed(req, "Failed to connect to SOHO API", one)
       ELSE IF login = "RequestError"
         THEN receipt_failed(req, "API request failed", one)
       ELSE IF login = "Exception"
         THEN receipt_failed(req, "Unexpected error during payment", one)
       ELSE IF login # "200" /\ login # "200 without accessToken"
         THEN receipt_failed(req, "Login failed", one)
       ELSE IF ~has_access_token(login)
         THEN receipt_failed(req, "No access token in login response", one)
       ELSE IF pay = "ConnectError"
         THEN receipt_failed(req, "Failed to connect to SOHO API", two)
       ELSE IF pay = "RequestError"
         THEN receipt_failed(req, "API request failed", two)
       ELSE IF pay = "Exception"
         THEN receipt_failed(req, "Unexpected error during payment", two)
       ELSE IF pay \notin {"200", "201"}
         THEN receipt_failed(req, "Payment failed", two)
       ELSE receipt_paid(req, usd.cents, two)
  /\ UNCHANGED <<token_db, issued, pending, mc, account_db, state>>

\* ------------------------------------------- the other request handlers
\* Mutant of handler_raised (C24): the handler signals completion before it
\* raises.
handler_raised_after_complete(req, msg) ==
  [req EXCEPT !.outcome = "ValueError", !.msg = msg, !.completes = 1]

\* A handler that raises ValueError: nothing was added, nothing signalled.
handler_raised(req, msg) == [req EXCEPT !.outcome = "ValueError", !.msg = msg]

\* A handler that adds its artifacts and then signals completion.
handler_completed(req, artifacts) ==
  [req EXCEPT !.outcome = "ok", !.artifacts = artifacts, !.completes = 1]

\* account.get("shipping_addresses", {})
shipping_addresses(account) ==
  IF "shipping_addresses" \in DOMAIN account THEN account.shipping_addresses ELSE <<>>

\* ContactAddress(...).model_dump() of a stored address.
contact_address(shipping_address) ==
  [recipient |-> shipping_address.recipient,
   organization |-> shipping_address.organization,
   addressLine |-> shipping_address.address_line,
   city |-> shipping_address.city,
   region |-> shipping_address.region,
   postalCode |-> shipping_address.postal_code,
   country |-> shipping_address.country,
   phoneNumber |-> shipping_address.phone_number]

AddressKeyInputs == {None, <<"w","o","r","k">>}

\* Mutant of shipping_address_for (C31): a key the account does not have is an
\* error.
shipping_address_for_known_key_only(user_email, account, address_key) ==
  IF Truthy(address_key)
    THEN IF address_key \in DOMAIN shipping_addresses(account)
           THEN Ok(shipping_addresses(account)[address_key])
           ELSE Raise("Address not found")
    ELSE get_account_shipping_address(user_email)

\* The address the handler answers with: the one stored under address_key
\* when the account has that key, else the default address of the account.
shipping_address_for(user_email, account, address_key) ==
  IF Truthy(address_key) /\ address_key \in DOMAIN shipping_addresses(account)
    THEN Ok(shipping_addresses(account)[address_key])
    ELSE get_account_shipping_address(user_email)

\* handle_get_shipping_address.  A key that is not among the account's
\* shipping_addresses falls back to the default address; without a key the
\* test for "all" addresses is cut short by the empty shipping_addresses.
HandleGetShippingAddress(user_email, address_key) ==
  /\ LET req == [NoCall EXCEPT !.op = "handle_get_shipping_address",
                               !.email = user_email,
                               !.args = [address_key |-> address_key]]
         account == get_account(user_email)
         shipping_address == shipping_address_for(user_email, account, address_key)
     IN
     last' =
       IF ~Truthy(user_email)
         THEN handler_raised(req, "user_email is required for get_shipping_address")
       ELSE IF account = NoneDict
         THEN handler_raised(req, "User not found")
       ELSE IF shipping_address.outcome # "ok"
         THEN handler_raised(req, shipping_address.msg)
       ELSE handler_completed(req,
              <<[contact_address |-> contact_address(shipping_address.result)]>>)
  /\ UNCHANGED <<token_db, issued, pending, mc, account_db, state>>

\* handle_get_credit_status
HandleGetCreditStatus(user_email) ==
  /\ LET req == [NoCall EXCEPT !.op = "handle_get_credit_status",
                               !.email = user_email]
         account == get_account(user_email)
     IN
     last' =
       IF ~Truthy(user_email)
         THEN handler_raised(req, "user_email is required for get_credit_status")
       ELSE IF account = NoneDict
         THEN handler_raised(req, "User not found")
       ELSE handler_completed(req,
              <<[credit_status |->
                   [user_id |-> account.user_id,
                    borrower_address |-> get_borrower_address(user_email).result,
                    credit_profile |-> get_credit_profile(user_email).result,
                    spending_limits |-> [per_transaction |-> 100000,
                                         per_day |-> 200000,
                                         per_month |-> 500000],
                    status |-> "active"]]>>)
  /\ UNCHANGED <<token_db, issued, pending, mc, account_db, state>>

\* The amount of a request, in cents, or None.
no_amount == [is_none |-> TRUE, cents |-> 0]
amount_of(cents) == [is_none |-> FALSE, cents |-> cents]
amount_truthy(amount) == ~amount.is_none /\ amount.cents # 0

\* The amounts quoted: 48.50 (the logged order), 100.00 to 100.03 (every
\* remainder of the division by 4), and the amounts at and just above the
\* available credit of each account, 2500.00 and 4139.42.
QuoteAmountInputs ==
  {4850, 10000, 10001, 10002, 10003, 250000, 250001, 413942, 413943}

\* The amounts among QuoteAmountInputs whose quarter lies halfway between two
\* cents and for which round(amount / 4, 2) takes the upper one: 4139.42.
\* (For 48.50 and 100.02 it takes the lower one.)
QuarterTieRoundsUp == {413942}

\* round(n / d, 2) in cents, for a value of n / d cents: the nearest cent;
\* a value halfway between two cents goes up when tie_up says so.
round_cents(n, d, tie_up) ==
  LET q == n \div d
      r == n % d
  IN IF 2 * r > d THEN q + 1
     ELSE IF 2 * r < d THEN q
     ELSE IF tie_up THEN q + 1 ELSE q

\* The plans of a quote.  Money is in cents; a due date is the number of days
\* it lies after current_date.
\* Mutant of pay_in_full (C29): the single due date is the current date.
pay_in_full_due_now(cents) ==
  [plan_id |-> "pay_in_full", name |-> "Pay in Full", installments |-> 1,
   amount_per_installment |-> cents, interest_rate |-> "0.00%",
   total_amount |-> cents, due_dates |-> <<0>>]

pay_in_full(cents) ==
  [plan_id |-> "pay_in_full", name |-> "Pay in Full", installments |-> 1,
   amount_per_installment |-> cents, interest_rate |-> "0.00%",
   total_amount |-> cents, due_dates |-> <<30>>]

\* Mutant of pay_in_4 (C28): the total is the requested amount.
pay_in_4_total_is_amount(cents) ==
  [plan_id |-> "pay_in_4", name |-> "Pay in 4", installments |-> 4,
   amount_per_installment |-> round_cents(cents, 4, cents \in QuarterTieRoundsUp),
   interest_rate |-> "0.00%",
   total_amount |-> cents,
   due_dates |-> <<0, 14, 28, 42>>]

\* round(amount / 4, 2), and that times 4 as the total.
pay_in_4(cents) ==
  [plan_id |-> "pay_in_4", name |-> "Pay in 4", installments |-> 4,
   amount_per_installment |-> round_cents(cents, 4, cents \in QuarterTieRoundsUp),
   interest_rate |-> "0.00%",
   total_amount |-> round_cents(cents, 4, cents \in QuarterTieRoundsUp) * 4,
   due_dates |-> <<0, 14, 28, 42>>]

\* round((amount * 1.0599) / 12, 2) and round(amount * 1.0599, 2).  The
\* fractions are written in lowest terms and the whole part of the total is
\* taken out, which keeps the products within 32 bits: 1.0599 / 12 is
\* 3533 / 40000, and amount * 1.0599 is amount + amount * 599 / 10000.  None
\* of QuoteAmountInputs lies halfway between two cents here.
pay_in_12(cents) ==
  [plan_id |-> "pay_in_12", name |-> "12 Month Plan", installments |-> 12,
   amount_per_installment |-> round_cents(cents * 3533, 40000, FALSE),
   interest_rate |-> "5.99%",
   total_amount |-> cents + round_cents(cents * 599, 10000, FALSE),
   due_dates |-> [i \in 1..12 |-> 30 * i]]

\* Mutant of bnpl_options (C26): the 12 month plan comes before pay in 4.
bnpl_options_reordered(cents) == <<pay_in_full(cents), pay_in_12(cents), pay_in_4(cents)>>

bnpl_options(cents) == <<pay_in_full(cents), pay_in_4(cents), pay_in_12(cents)>>

\* Mutant of exceeds_credit (C25): one cent over the available credit is let
\* through.
exceeds_credit_by_more(cents, available_credit) == cents > available_credit + 1

\* amount > available_credit
exceeds_credit(cents, available_credit) == cents > available_credit

\* The quote of handle_get_bnpl_quote for an account and an amount.
bnpl_quote(account, cents) ==
  IF exceeds_credit(cents, account.credit_profile.available_credit)
    THEN [validation_status |-> "declined",
          reason |-> "insufficient_credit",
          available_credit |-> account.credit_profile.available_credit,
          requested_amount |-> cents]
    ELSE [validation_status |-> "approved",
          available_credit |-> account.credit_profile.available_credit,
          transaction_amount |-> cents,
          bnpl_options |-> bnpl_options(cents),
          credit_authorization_token |-> <<"soho_auth_", account.user_id>>,
          limits_check |-> [per_transaction_limit |-> 100000,
                            per_day_remaining |-> 200000 - cents,
                            per_month_remaining |-> 500000 - cents]]

\* handle_get_bnpl_quote, from its first line to its return or raise.
get_bnpl_quote_request(user_email, amount) ==
  LET req == [NoCall EXCEPT !.op = "handle_get_bnpl_quote",
                            !.email = user_email,
                            !.args = [amount |-> amount]]
      account == get_account(user_email)
  IN
  IF ~Truthy(user_email) \/ amount.is_none
    THEN handler_raised(req, "user_email and amount are required for get_bnpl_quote")
  ELSE IF account = NoneDict
    THEN handler_raised(req, "User not found")
  ELSE handler_completed(req, <<[bnpl_quote |-> bnpl_quote(account, amount.cents)]>>)

\* Mutant of HandleGetBnplQuote (C32): an approved quote reserves its amount
\* from the account's available credit.
HandleGetBnplQuote_reserves_credit(user_email, amount) ==
  /\ last' = get_bnpl_quote_request(user_email, amount)
  /\ account_db' =
       IF /\ last'.outcome = "ok"
          /\ last'.artifacts[1].bnpl_quote.validation_status = "approved"
         THEN [account_db EXCEPT
                 ![user_email].credit_profile.available_credit = @ - amount.cents]
         ELSE account_db
  /\ UNCHANGED <<token_db, issued, pending, mc, state>>

\* The handler serving a request of its own.  It reads the account and
\* writes nothing.
HandleGetBnplQuote(user_email, amount) ==
  /\ last' = get_bnpl_quote_request(user_email, amount)
  /\ UNCHANGED <<token_db, issued, pending, mc, account_db, state>>

MERCHANT == <<"S","h","o","p">>
MerchantInputs == {None, <<>>, MERCHANT}
PaymentPlanInputs == {NoneDict, [plan_id |-> "pay_in_4"]}
ApprovalAmountInputs == {no_amount, amount_of(0), amount_of(4850)}

\* all([user_email, amount, merchant, payment_plan]): each value is truthy.
all_given(user_email, amount, merchant, payment_plan) ==
  /\ Truthy(user_email)
  /\ amount_truthy(amount)
  /\ Truthy(merchant)
  /\ payment_plan # NoneDict

\* handle_request_biometric_approval, from its first line to its return or
\* raise.
request_biometric_approval_request(user_email, amount, merchant, payment_plan) ==
  LET req == [NoCall EXCEPT !.op = "handle_request_biometric_approval",
                               !.email = user_email,
                               !.args = [amount |-> amount, merchant |-> merchant,
                                         payment_plan |-> payment_plan]]
         account == get_account(user_email)
     IN
       IF ~all_given(user_email, amount, merchant, payment_plan)
         THEN handler_raised(req, "user_email, amount, merchant, and payment_plan are required")
       ELSE IF account = NoneDict
         THEN handler_raised(req, "User not found")
       ELSE handler_completed(req,
              <<[biometric_approval |->
                   [approval_status |-> "authorized",
                    attestation |->
                      [type |-> "device_biometric",
                       authentication_method |-> "face_id",
                       signature |-> <<"0x9f8e7d6c5b4a_", account.user_id>>,
                       timestamp |-> "approval_timestamp",
                       device_id |-> <<"iphone_", account.user_id>>,
                       device_certificate |-> [issuer |-> "Apple",
                                               serial |-> "CERT_APPLE_XYZ",
                                               valid_until |-> "2026-11-15"]]]]>>)

\* The handler serving a request of its own.
HandleRequestBiometricApproval(user_email, amount, merchant, payment_plan) ==
  /\ last' = request_biometric_approval_request(user_email, amount, merchant, payment_plan)
  /\ UNCHANGED <<token_db, issued, pending, mc, account_db, state>>

\* ------------------------------------------ the shopping agent's tools
\* The user the shopping agent names in its quote and approval requests.
BORROWER_EMAIL ==
  <<"b","o","r","r","o","w","e","r","1","@","e","x","a","m","p","l","e",".","c","o","m">>

\* The ceiling of get_bnpl_options, 100.00, in cents.
DEMO_LIMIT_CENTS == 10000

\* The cart totals: 99.99 and 100.00.
CartTotalInputs == {9999, 10000}

\* The account the credentials provider resolves the agent's user to.  The
\* ledger the remote provider runs with is seeded outside this code: the user
\* is one of its accounts, or unknown to it.
ResolvedEmailInputs == {USER_EMAIL, NOBODY_EMAIL}

\* What get_first_data_part comes to for a task without a data part: the
\* empty dict, or an exception.
NoDataOutcomes == {"empty", "raise"}
EmptyDict == [empty |-> TRUE]

\* The task a request to the provider returns: the artifacts the handler
\* added, each as one data part; none when the handler raised.
task_artifacts(call) ==
  artifacts_list(IF call.outcome = "ok"
                   THEN [i \in 1..Len(call.artifacts) |->
                           [parts |-> <<data_part(call.artifacts[i])>>]]
                   ELSE <<>>)

\* artifact_utils.get_first_data_part(task.artifacts)
first_data_part(call, no_data) ==
  IF has_payment_method_data(task_artifacts(call))
    THEN Ok(get_first_data_part(task_artifacts(call)))
  ELSE IF no_data = "empty" THEN Ok(EmptyDict)
  ELSE [outcome |-> "Exception", msg |-> "no data part", result |-> NoneDict]

\* data.get(key): None for a key the dict lacks.
dict_get(data, key) == IF key \in DOMAIN data THEN data[key] ELSE NoneDict

\* state.get(key): None for a key that is absent.
state_get(key) == IF state[key] = Absent THEN NoneDict ELSE state[key].v

\* A tool call that raises: state is as before.
tool_raised(req, outcome, msg) ==
  /\ last' = [req EXCEPT !.outcome = outcome, !.msg = msg]
  /\ UNCHANGED state

\* update_cart: the merchant's updated cart mandate and the chosen shipping
\* address are stored.
UpdateCart(total) ==
  /\ state' = [state EXCEPT
       !.cart_mandate = Stored([id |-> "cart_1", total |-> total,
                                merchant_name |-> MERCHANT]),
       !.shipping_address = Stored(contact_address(soho_account_db[USER_EMAIL].shipping_address))]
  /\ last' = [NoCall EXCEPT !.op = "update_cart", !.outcome = "ok",
                            !.args = [total |-> total]]
  /\ UNCHANGED <<token_db, issued, pending, mc, account_db>>

\* Mutant of exceeds_demo_limit (C38): a total of exactly 100.00 is let
\* through.
exceeds_demo_limit_above_only(total_amount) == total_amount > DEMO_LIMIT_CENTS

\* total_amount >= 100.00
exceeds_demo_limit(total_amount) == total_amount >= DEMO_LIMIT_CENTS

\* get_bnpl_options.  resolved is the account the provider takes the user
\* for, no_data what get_first_data_part does with a task that has no data.
GetBnplOptions(resolved, no_data) ==
  /\ LET req == [NoCall EXCEPT !.op = "get_bnpl_options"]
         cart_mandate == state_get("cart_mandate")
         total_amount == cart_mandate.total
         message == [op |-> "get_bnpl_quote", user_email |-> BORROWER_EMAIL,
                     amount |-> total_amount,
                     merchant_name |-> cart_mandate.merchant_name]
         call == get_bnpl_quote_request(resolved, amount_of(total_amount))
         data == first_data_part(call, no_data)
     IN
     IF cart_mandate = NoneDict
       THEN tool_raised(req, "RuntimeError", "No cart mandate found in tool context state.")
     ELSE IF exceeds_demo_limit(total_amount)
       THEN tool_raised(req, "RuntimeError", "Total amount exceeds $100.00 limit for SOHO API demo.")
     ELSE IF data.outcome # "ok"
       THEN tool_raised([req EXCEPT !.calls = <<message>>], data.outcome, data.msg)
     ELSE /\ state' = [state EXCEPT
                 !.bnpl_quote = Stored(dict_get(data.result, "bnpl_quote"))]
          /\ last' = [req EXCEPT !.outcome = "ok", !.calls = <<message>>,
                                 !.result = dict_get(data.result, "bnpl_quote")]
  /\ UNCHANGED <<token_db, issued, pending, mc, account_db>>

\* The third plan of a quote, and a plan no quote has.
PlanIdInputs == {"pay_in_12", "pay_in_6"}

\* Mutant of find_plan (C37): an unknown plan id selects the first option.
find_plan_or_first(options, plan_id) ==
  LET hits == {i \in 1..Len(options) : options[i].plan_id = plan_id}
  IN IF hits = {} THEN options[1]
     ELSE options[CHOOSE i \in hits : \A j \in hits : i <= j]

\* next((plan for plan in options if plan["plan_id"] == plan_id), None)
find_plan(options, plan_id) ==
  LET hits == {i \in 1..Len(options) : options[i].plan_id = plan_id}
  IN IF hits = {} THEN NoneDict
     ELSE options[CHOOSE i \in hits : \A j \in hits : i <= j]

\* select_payment_plan.  A declined quote has no "bnpl_options" key.
SelectPaymentPlan(plan_id) ==
  /\ LET req == [NoCall EXCEPT !.op = "select_payment_plan",
                               !.args = [plan_id |-> plan_id]]
         quote == state_get("bnpl_quote")
         selected_plan == find_plan(quote.bnpl_options, plan_id)
     IN
     IF quote = NoneDict
       THEN tool_raised(req, "RuntimeError", "No BNPL quote found in tool context state.")
     ELSE IF "bnpl_options" \notin DOMAIN quote
       THEN tool_raised(req, "KeyError", "bnpl_options")
     ELSE IF selected_plan = NoneDict
       THEN tool_raised(req, "ValueError", "Invalid plan_id")
     ELSE /\ state' = [state EXCEPT
                 !.selected_payment_plan = Stored(selected_plan),
                 !.credit_authorization_token =
                    Stored(quote.credit_authorization_token)]
          /\ last' = [req EXCEPT !.outcome = "ok", !.result = selected_plan]
  /\ UNCHANGED <<token_db, issued, pending, mc, account_db>>

\* request_biometric_approval
RequestBiometricApproval(resolved, no_data) ==
  /\ LET req == [NoCall EXCEPT !.op = "request_biometric_approval"]
         cart_mandate == state_get("cart_mandate")
         selected_plan == state_get("selected_payment_plan")
         message == [op |-> "request_biometric_approval",
                     user_email |-> BORROWER_EMAIL,
                     amount |-> cart_mandate.total,
                     merchant |-> cart_mandate.merchant_name,
                     payment_plan |-> selected_plan]
         call == request_biometric_approval_request(
                   resolved, amount_of(cart_mandate.total),
                   cart_mandate.merchant_name, selected_plan)
         data == first_data_part(call, no_data)
     IN
     IF cart_mandate = NoneDict \/ selected_plan = NoneDict
       THEN tool_raised(req, "RuntimeError",
                        "Missing cart_mandate or selected_payment_plan in state.")
     ELSE IF data.outcome # "ok"
       THEN tool_raised([req EXCEPT !.calls = <<message>>], data.outcome, data.msg)
     ELSE /\ state' = [state EXCEPT
                 !.biometric_approval = Stored(dict_get(data.result, "biometric_approval"))]
          /\ last' = [req EXCEPT !.outcome = "ok", !.calls = <<message>>,
                                 !.result = dict_get(data.result, "biometric_approval")]
  /\ UNCHANGED <<token_db, issued, pending, mc, account_db>>

\* Mutant of token_value_in (C36): the plan id of the response is taken for
\* the token.
token_value_in_plan_id(data) ==
  IF "payment_credential_token" \in DOMAIN data
    THEN <<data.payment_credential_token.plan_id>>
    ELSE None

\* The token value create_payment_credential_token finds in the data of the
\* response: data["token"], or the value (else the token) of
\* data["payment_credential_token"]; _find_token, the search that follows
\* when that found nothing, finds nothing in a dict without these keys.
token_value_in(data) ==
  IF "token" \in DOMAIN data THEN data.token
  ELSE IF "payment_credential_token" \in DOMAIN data
    THEN LET pct == data.payment_credential_token
         IN IF "value" \in DOMAIN pct /\ Truthy(pct.value) THEN pct.value
            ELSE IF "token" \in DOMAIN pct THEN pct.token
            ELSE None
  ELSE None

PROVIDER_URL == "http://localhost:8005/a2a/soho_credentials_provider"

\* create_payment_credential_token: the provider's handler runs on the
\* request, and the token of its response is stored with the raw response.
CreatePaymentCredentialToken(user_email, payment_method_alias, no_data) ==
  /\ Cardinality(DOMAIN token_db) < MaxShopTokens
  /\ LET req == [NoCall EXCEPT !.op = "create_payment_credential_token",
                               !.email = user_email, !.alias = payment_method_alias]
         message == [op |-> "create_payment_credential_token",
                     user_email |-> user_email,
                     payment_method_alias |-> payment_method_alias]
         r == create_payment_credential_token_request(user_email, payment_method_alias)
         data == first_data_part(r.call, no_data)
         token == token_value_in(data.result)
     IN
     /\ token_db' = r.db
     /\ issued' = r.issued
     /\ IF data.outcome # "ok"
          THEN tool_raised([req EXCEPT !.calls = <<message>>], data.outcome, data.msg)
        ELSE /\ state' = [state EXCEPT
                    !.payment_credential_token =
                       Stored([value |-> token, raw |-> data.result,
                               provider_url |-> PROVIDER_URL])]
             /\ last' = [req EXCEPT
                    !.outcome = "ok", !.calls = <<message>>, !.token = token,
                    !.result = IF Truthy(token)
                                 THEN [status |-> "success", token |-> token]
                                 ELSE [status |-> "error", reason |-> "no_token_returned",
                                       raw |-> data.result]]
  /\ UNCHANGED <<pending, mc, account_db>>

\* create_soho_payment_mandate: state[key] raises KeyError for an absent key.
CreateSohoPaymentMandate(payment_method_alias, user_email) ==
  /\ LET req == [NoCall EXCEPT !.op = "create_soho_payment_mandate",
                               !.email = user_email, !.alias = payment_method_alias]
         missing == {k \in {"cart_mandate", "selected_payment_plan",
                            "credit_authorization_token", "shipping_address",
                            "payment_credential_token"} : state[k] = Absent}
         payment_response ==
           [request_id |-> "order_1", method_name |-> "SOHO_CREDIT",
            details |-> [token |-> state.payment_credential_token.v,
                         authorization_token |-> state.credit_authorization_token.v,
                         borrower_address |-> "0x742d35Cc6634C0532925a3b844Bc9e7595f0bEb",
                         payment_plan |-> state.selected_payment_plan.v],
            shipping_address |-> state.shipping_address.v,
            payer_email |-> user_email]
         payment_mandate_ ==
           [payment_mandate_contents |->
              [payment_mandate_id |-> <<"m","1">>,
               payment_details_id |-> "order_1",
               payment_details_total |-> state.cart_mandate.v.total,
               payment_response |-> payment_response,
               merchant_agent |-> state.cart_mandate.v.merchant_name],
            user_authorization |-> None]
     IN
     IF missing # {}
       THEN tool_raised(req, "KeyError", "state")
     ELSE /\ state' = [state EXCEPT !.payment_mandate = Stored(payment_mandate_)]
          /\ last' = [req EXCEPT !.outcome = "ok", !.result = payment_mandate_]
  /\ UNCHANGED <<token_db, issued, pending, mc, account_db>>

\* Mutant of json_dumps (C33): the signature is left out.
json_dumps_without_signature(attestation) ==
  << <<"type", attestation.type>>,
     <<"authentication_method", attestation.authentication_method>>,
     <<"timestamp", attestation.timestamp>>,
     <<"device_id", attestation.device_id>>,
     <<"device_certificate",
       << <<"issuer", attestation.device_certificate.issuer>>,
          <<"serial", attestation.device_certificate.serial>>,
          <<"valid_until", attestation.device_certificate.valid_until>> >> >> >>

\* json.dumps of an attestation: its members as name and value, in the order
\* the dict was built in; the device certificate is a nested object.
json_dumps(attestation) ==
  << <<"type", attestation.type>>,
     <<"authentication_method", attestation.authentication_method>>,
     <<"signature", attestation.signature>>,
     <<"timestamp", attestation.timestamp>>,
     <<"device_id", attestation.device_id>>,
     <<"device_certificate",
       << <<"issuer", attestation.device_certificate.issuer>>,
          <<"serial", attestation.device_certificate.serial>>,
          <<"valid_until", attestation.device_certificate.valid_until>> >> >> >>

\* The value of a member of a serialized object, None when it has none.
json_member(text, name) ==
  LET hits == {i \in 1..Len(text) : text[i][1] = name}
  IN IF hits = {} THEN None ELSE text[CHOOSE i \in hits : TRUE][2]

\* json.loads of a serialized attestation.
json_loads(text) ==
  [type |-> json_member(text, "type"),
   authentication_method |-> json_member(text, "authentication_method"),
   signature |-> json_member(text, "signature"),
   timestamp |-> json_member(text, "timestamp"),
   device_id |-> json_member(text, "device_id"),
   device_certificate |->
     [issuer |-> json_member(json_member(text, "device_certificate"), "issuer"),
      serial |-> json_member(json_member(text, "device_certificate"), "serial"),
      valid_until |-> json_member(json_member(text, "device_certificate"), "valid_until")]]

\* attach_biometric_attestation: the mandate object held in state is written
\* in place, and stored under "signed_payment_mandate" as well.
AttachBiometricAttestation ==
  /\ LET req == [NoCall EXCEPT !.op = "attach_biometric_attestation"]
         missing == {k \in {"payment_mandate", "cart_mandate", "biometric_approval"} :
                       state[k] = Absent}
         signed == [state.payment_mandate.v EXCEPT
                      !.user_authorization =
                         json_dumps(state.biometric_approval.v.attestation)]
     IN
     IF missing # {}
       THEN tool_raised(req, "KeyError", "state")
     ELSE IF state.biometric_approval.v = NoneDict
       THEN tool_raised(req, "TypeError", "'NoneType' object is not subscriptable")
     ELSE /\ state' = [state EXCEPT !.payment_mandate = Stored(signed),
                                    !.signed_payment_mandate = Stored(signed)]
          /\ last' = [req EXCEPT !.outcome = "ok",
                                 !.result = [text |-> signed.user_authorization]]
  /\ UNCHANGED <<token_db, issued, pending, mc, account_db>>

\* ---------------------------------------- mandate completion: its steps
\* The tasks a caller can pass: none (a fresh request), or the task it holds
\* when that task waits for input.
CurrentTaskInputs ==
  {"none"} \cup (IF mc.task = "input_required" THEN {"input_required"} ELSE {})

\* The end of an attempt with one signal to the caller; the caller's task
\* takes the signalled state.
signal(attempt, kind, reason, task_state) ==
  [attempt EXCEPT !.signals = Append(attempt.signals, [kind |-> kind, reason |-> reason]),
                  !.running = FALSE, !.task = task_state,
                  !.challenges = IF kind = "requires_input"
                                   THEN attempt.challenges + 1 ELSE attempt.challenges]

\* A payment request arrives: a new attempt enters AwaitingMandate.
InitiatePayment(data_parts, current_task) ==
  /\ ~mc.running
  /\ mc.attempts < MaxAttempts
  /\ current_task \in CurrentTaskInputs
  /\ mc' = [NoAttempt EXCEPT !.attempts = mc.attempts + 1, !.task = mc.task,
                             !.challenges = IF current_task = "none"
                                              THEN 0 ELSE mc.challenges,
                             !.phase = "AwaitingMandate", !.running = TRUE,
                             !.data_parts = data_parts,
                             !.current_task = current_task]
  /\ UNCHANGED <<token_db, issued, last, pending, account_db, state>>

\* Mutant of ReceiveMandate (C17): a request without a payment mandate part is
\* answered with a request for input.
ReceiveMandate_asks ==
  /\ mc.running
  /\ mc.phase = "AwaitingMandate"
  /\ mc' = IF PAYMENT_MANDATE_DATA_KEY \notin DOMAIN mc.data_parts
             THEN signal(mc, "requires_input", "", "input_required")
             ELSE [mc EXCEPT
                     !.phase = "AwaitingChallenge",
                     !.mandate = mc.data_parts[PAYMENT_MANDATE_DATA_KEY],
                     !.challenge_response =
                       IF CHALLENGE_RESPONSE_KEY \in DOMAIN mc.data_parts
                         THEN mc.data_parts[CHALLENGE_RESPONSE_KEY] ELSE ""]
  /\ UNCHANGED <<token_db, issued, last, pending, account_db, state>>

\* AwaitingMandate: without a payment mandate part the attempt fails; with one,
\* the mandate and the challenge response (empty when absent) are extracted.
ReceiveMandate ==
  /\ mc.running
  /\ mc.phase = "AwaitingMandate"
  /\ mc' = IF PAYMENT_MANDATE_DATA_KEY \notin DOMAIN mc.data_parts
             THEN signal([mc EXCEPT !.phase = "Failed"],
                         "failed", "missing mandate", "failed")
             ELSE [mc EXCEPT
                     !.phase = "AwaitingChallenge",
                     !.mandate = mc.data_parts[PAYMENT_MANDATE_DATA_KEY],
                     !.challenge_response =
                       IF CHALLENGE_RESPONSE_KEY \in DOMAIN mc.data_parts
                         THEN mc.data_parts[CHALLENGE_RESPONSE_KEY] ELSE ""]
  /\ UNCHANGED <<token_db, issued, last, pending, account_db, state>>

\* Mutant of Challenge (C15): a first call is not challenged.
Challenge_none ==
  /\ mc.running
  /\ mc.phase = "AwaitingChallenge"
  /\ mc' = [mc EXCEPT !.phase = "AwaitingCredential"]
  /\ UNCHANGED <<token_db, issued, last, pending, account_db, state>>

\* Mutant of Challenge (C14): SOHO_CREDIT is challenged like a card.
Challenge_all_methods ==
  /\ mc.running
  /\ mc.phase = "AwaitingChallenge"
  /\ mc' = IF mc.current_task = "none"
               THEN signal(mc, "requires_input", "", "input_required")
             ELSE IF mc.challenge_response = EXPECTED_CHALLENGE
               THEN [mc EXCEPT !.phase = "AwaitingCredential"]
             ELSE signal(mc, "requires_input", "", "input_required")
  /\ UNCHANGED <<token_db, issued, last, pending, account_db, state>>

\* Mutant of Challenge (C16): a wrong challenge response fails the attempt.
Challenge_mismatch_fails ==
  /\ mc.running
  /\ mc.phase = "AwaitingChallenge"
  /\ mc' = IF mc.mandate.method_name = "SOHO_CREDIT"
               THEN [mc EXCEPT !.phase = "AwaitingCredential"]
             ELSE IF mc.current_task = "none"
               THEN signal(mc, "requires_input", "", "input_required")
             ELSE IF mc.challenge_response = EXPECTED_CHALLENGE
               THEN [mc EXCEPT !.phase = "AwaitingCredential"]
             ELSE signal([mc EXCEPT !.phase = "Failed"],
                         "failed", "invalid challenge", "failed")
  /\ UNCHANGED <<token_db, issued, last, pending, account_db, state>>

\* AwaitingChallenge: SOHO_CREDIT bypasses the challenge; a card method with no
\* prior task is challenged and the attempt halts; with a prior task the
\* response is compared with the expected value, and a mismatch is challenged
\* again.
Challenge ==
  /\ mc.running
  /\ mc.phase = "AwaitingChallenge"
  /\ mc' = IF mc.mandate.method_name = "SOHO_CREDIT"
               THEN [mc EXCEPT !.phase = "AwaitingCredential"]
             ELSE IF mc.current_task = "none"
               THEN signal(mc, "requires_input", "", "input_required")
             ELSE IF mc.challenge_response = EXPECTED_CHALLENGE
               THEN [mc EXCEPT !.phase = "AwaitingCredential"]
             ELSE signal(mc, "requires_input", "", "input_required")
  /\ UNCHANGED <<token_db, issued, last, pending, account_db, state>>

\* AwaitingCredential: the one request to the credentials provider is sent and
\* the attempt waits for its response.
RequestCredential ==
  /\ mc.running
  /\ mc.phase = "AwaitingCredential"
  /\ mc.requests = 0
  /\ mc' = [mc EXCEPT !.requests = mc.requests + 1, !.outstanding = TRUE]
  /\ UNCHANGED <<token_db, issued, last, pending, account_db, state>>

\* Mutant of CredentialResponse (C13): artifacts without payment method data
\* count as an empty credential and the attempt completes.
CredentialResponse_lenient(artifacts) ==
  /\ mc.outstanding
  /\ mc' = signal([mc EXCEPT !.outstanding = FALSE, !.phase = "Completed",
                             !.responses = Append(mc.responses, artifacts),
                             !.credential =
                               IF has_payment_method_data(artifacts)
                                 THEN get_first_data_part(artifacts) ELSE NoneDict],
                  "complete", "", "completed")
  /\ UNCHANGED <<token_db, issued, last, pending, account_db, state>>

\* Mutant of CredentialResponse (C19): a response without payment method data
\* makes the attempt ask the provider again.
CredentialResponse_retry(artifacts) ==
  /\ mc.outstanding
  /\ mc' = IF has_payment_method_data(artifacts)
               THEN signal([mc EXCEPT !.outstanding = FALSE, !.phase = "Completed",
                                      !.responses = Append(mc.responses, artifacts),
                                      !.credential = get_first_data_part(artifacts)],
                           "complete", "", "completed")
             ELSE [mc EXCEPT !.requests = mc.requests + 1,
                             !.responses = Append(mc.responses, artifacts)]
  /\ UNCHANGED <<token_db, issued, last, pending, account_db, state>>

\* The provider's response arrives.  With payment method data the credential
\* is attached and completion is signalled; without, the error is raised.
CredentialResponse(artifacts) ==
  /\ mc.outstanding
  /\ mc' = IF has_payment_method_data(artifacts)
               THEN signal([mc EXCEPT !.outstanding = FALSE, !.phase = "Completed",
                                      !.responses = Append(mc.responses, artifacts),
                                      !.credential = get_first_data_part(artifacts)],
                           "complete", "", "completed")
             ELSE [mc EXCEPT !.outstanding = FALSE,
                             !.responses = Append(mc.responses, artifacts),
                             !.raised = FAILED_TO_FIND_MESSAGE]
  /\ UNCHANGED <<token_db, issued, last, pending, account_db, state>>

\* Mutant of SurfaceError (C18): the failure is signalled twice.
SurfaceError_twice ==
  /\ mc.running
  /\ mc.raised # ""
  /\ mc' = signal(signal([mc EXCEPT !.phase = "Failed"],
                         "failed", surfaced_error(mc.raised), "failed"),
                  "failed", surfaced_error(mc.raised), "failed")
  /\ UNCHANGED <<token_db, issued, last, pending, account_db, state>>

\* The executor turns the error raised by the attempt into the failure signal.
SurfaceError ==
  /\ mc.running
  /\ mc.raised # ""
  /\ mc' = signal([mc EXCEPT !.phase = "Failed"],
                  "failed", surfaced_error(mc.raised), "failed")
  /\ UNCHANGED <<token_db, issued, last, pending, account_db, state>>

Next ==
  \/ \E e \in EmailInputs, a \in AliasInputs : CreateToken(e, a)
  \/ \E e \in EmailInputs \cup {None}, a \in AliasInputs \cup {None} :
       HandleCreatePaymentCredentialToken(e, a)
  \/ \E t \in TokenInputs, m \in MandateInputs : UpdateToken(t, m)
  \/ \E t \in TokenInputs, m \in MandateInputs : VerifyToken(t, m)

Spec == Init /\ [][Next]_vars

\* The provider serving requests: tokens are created by the handler, and the
\* update_token calls of concurrent requests run in any order.
NextConcurrent ==
  \/ \E e \in EmailInputs \cup {None}, a \in AliasInputs \cup {None} :
       HandleCreatePaymentCredentialToken(e, a)
  \/ \E c \in 1..MaxPending, t \in TokenInputs, m \in MandateInputs :
       UpdateTokenRequest(c, t, m)
  \/ \E call \in pending : UpdateTokenRun(call)
  \/ \E t \in TokenInputs, m \in MandateInputs : VerifyToken(t, m)

SpecConcurrent == Init /\ [][NextConcurrent]_vars

\* The credentials provider and the payment processor together: tokens are
\* created by the provider's handler, mandates are completed by the processor.
\* No tool of the provider's executor calls update_token or verify_token.
NextMandate ==
  \/ \E e \in {USER_EMAIL}, a \in AliasInputs :
       HandleCreatePaymentCredentialToken(e, a)
  \/ \E d \in DataPartsInputs, t \in CurrentTaskInputs : InitiatePayment(d, t)
  \/ ReceiveMandate
  \/ Challenge
  \/ RequestCredential
  \/ \E a \in ArtifactsInputs : CredentialResponse(a)
  \/ SurfaceError

SpecMandate == Init /\ [][NextMandate]_vars

\* The credentials provider serving token requests and payment receipts.
NextReceipt ==
  \/ \E e \in EmailInputs \cup {None}, a \in AliasInputs \cup {None} :
       HandleCreatePaymentCredentialToken(e, a)
  \/ \E r \in ReceiptInputs, login \in LoginOutcomes, pay \in PayOutcomes :
       HandlePaymentReceipt(r, login, pay)

SpecReceipt == Init /\ [][NextReceipt]_vars

\* The six tools of the credentials provider's executor, each serving one
\* request at a time.
NextProvider ==
  \/ \E e \in EmailInputs \cup {None}, k \in AddressKeyInputs :
       HandleGetShippingAddress(e, k)
  \/ \E e \in EmailInputs \cup {None} : HandleGetCreditStatus(e)
  \/ \E e \in EmailInputs \cup {None},
         a \in {no_amount} \cup {amount_of(c) : c \in QuoteAmountInputs} :
       HandleGetBnplQuote(e, a)
  \/ \E e \in EmailInputs \cup {None}, a \in ApprovalAmountInputs,
         m \in MerchantInputs, p \in PaymentPlanInputs :
       HandleRequestBiometricApproval(e, a, m, p)
  \/ \E e \in EmailInputs \cup {None}, a \in AliasInputs \cup {None} :
       HandleCreatePaymentCredentialToken(e, a)
  \/ \E r \in ReceiptInputs, login \in LoginOutcomes, pay \in PayOutcomes :
       HandlePaymentReceipt(r, login, pay)

SpecProvider == Init /\ [][NextProvider]_vars

\* The provider's handlers and the token store's operations, each called on
\* its own, over the requests that approve a quote or settle a payment and
\* those that fail.
NextLedger ==
  \/ \E e \in {USER_EMAIL, NOBODY_EMAIL}, k \in AddressKeyInputs :
       HandleGetShippingAddress(e, k)
  \/ \E e \in {USER_EMAIL, NOBODY_EMAIL} : HandleGetCreditStatus(e)
  \/ \E e \in {USER_EMAIL, NOBODY_EMAIL}, a \in {amount_of(4850), amount_of(413943)} :
       HandleGetBnplQuote(e, a)
  \/ \E e \in {USER_EMAIL, NOBODY_EMAIL}, p \in PaymentPlanInputs :
       HandleRequestBiometricApproval(e, amount_of(4850), MERCHANT, p)
  \/ \E e \in {USER_EMAIL, NOBODY_EMAIL}, a \in AliasInputs :
       HandleCreatePaymentCredentialToken(e, a)
  \/ \E r \in {NoneDict, [amount |-> amount_dict(9999)]},
         login \in {"401", "200"}, pay \in {"500", "200"} :
       HandlePaymentReceipt(r, login, pay)
  \/ \E e \in {USER_EMAIL}, a \in AliasInputs : CreateToken(e, a)
  \/ \E t \in TokenInputs, m \in MandateInputs : UpdateToken(t, m)
  \/ \E t \in TokenInputs, m \in MandateInputs : VerifyToken(t, m)

SpecLedger == Init /\ [][NextLedger]_vars

\* The shopping agent's tools, called in any order, with the credentials
\* provider answering each request.
NextShopping ==
  \/ \E total \in CartTotalInputs : UpdateCart(total)
  \/ \E e \in ResolvedEmailInputs, n \in NoDataOutcomes : GetBnplOptions(e, n)
  \/ \E p \in PlanIdInputs : SelectPaymentPlan(p)
  \/ \E e \in ResolvedEmailInputs, n \in NoDataOutcomes : RequestBiometricApproval(e, n)
  \/ \E e \in {USER_EMAIL, BUGS_EMAIL}, a \in AliasInputs, n \in NoDataOutcomes :
       CreatePaymentCredentialToken(e, a, n)
  \/ \E a \in AliasInputs : CreateSohoPaymentMandate(a, USER_EMAIL)
  \/ AttachBiometricAttestation

SpecShopping == Init /\ [][NextShopping]_vars

\* ------------------------------------------------------------------ claims
\* The entry of a token names an account and an alias that resolve to one of
\* that account's payment methods.
Resolvable(email_address, alias) ==
  /\ email_address \in DOMAIN soho_account_db
  /\ \E i \in 1..Len(soho_account_db[email_address].payment_methods) :
       casefold(soho_account_db[email_address].payment_methods[i].alias) = casefold(alias)

\* r is a full payment-method record of the account, under the given alias.
IsMethodOf(r, email_address, alias) ==
  /\ email_address \in DOMAIN soho_account_db
  /\ \E i \in 1..Len(soho_account_db[email_address].payment_methods) :
       /\ r = soho_account_db[email_address].payment_methods[i]
       /\ casefold(r.alias) = casefold(alias)
  /\ DOMAIN r = {"type", "alias", "plan_id"}

\* C1: first bind wins -- once a token has a bound mandate id (any id, the
\* empty string included), no later step replaces it.
C1_FirstBindWins ==
  [][\A t \in DOMAIN token_db :
       token_db[t].payment_mandate_id # None
         => /\ t \in DOMAIN token_db'
            /\ token_db'[t].payment_mandate_id = token_db[t].payment_mandate_id]_vars

\* C2: a token with no bound mandate id never verifies, whatever mandate id is
\* presented, an absent (None) one included.
C2_UnboundNeverVerifies ==
  (/\ last.op = "verify_token"
   /\ last.token \in DOMAIN token_db
   /\ token_db[last.token].payment_mandate_id = None)
    => last.outcome # "ok"

\* C3: round trip -- for a token created for a resolvable alias, a Verify that
\* directly follows the BindMandate of mandate id m on the unbound token
\* succeeds with the payment method the token was created for when it presents
\* m and raises "Invalid token" when it presents another mandate id; a Verify
\* that directly follows the creation, before any bind, raises "Invalid token".
C3_RoundTrip ==
  [][(/\ last'.op = "verify_token"
      /\ last'.mid \in MandateIds
      /\ last'.token = last.token
      /\ last.token \in DOMAIN token_db
      /\ Resolvable(token_db[last.token].email_address,
                    token_db[last.token].payment_method_alias))
       => /\ (last.op = "update_token" /\ last.prior = None /\ last.mid \in MandateIds)
               => IF last'.mid = last.mid
                    THEN /\ last'.outcome = "ok"
                         /\ IsMethodOf(last'.result,
                                       token_db[last.token].email_address,
                                       token_db[last.token].payment_method_alias)
                    ELSE /\ last'.outcome = "ValueError"
                         /\ last'.msg = "Invalid token"
          /\ (last.op \in {"create_token", "handle_create_payment_credential_token"}
              /\ last.outcome = "ok")
               => /\ last'.outcome = "ValueError"
                  /\ last'.msg = "Invalid token"]_vars

\* C3 witness: a bind of a mandate id on an unbound token was followed by a
\* successful Verify with the same id, which returned a payment method.
C3_Witness ==
  /\ last.op = "verify_token"
  /\ last.outcome = "ok"
  /\ last.mid \in MandateIds
  /\ last.token \in DOMAIN token_db
  /\ token_db[last.token].payment_mandate_id = last.mid
  /\ IsMethodOf(last.result, token_db[last.token].email_address,
                token_db[last.token].payment_method_alias)

\* C4: Verify on an unknown token, or on a token whose bound mandate id
\* differs from the presented one, raises "Invalid token" and leaves the token
\* store as it was.
C4_VerifyRejects ==
  [][(/\ last'.op = "verify_token"
      /\ last' # last
      /\ \/ last'.token \notin DOMAIN token_db
         \/ /\ token_db[last'.token].payment_mandate_id # None
            /\ token_db[last'.token].payment_mandate_id # last'.mid)
       => /\ last'.outcome = "ValueError"
          /\ last'.msg = "Invalid token"
          /\ token_db' = token_db]_vars

\* C4 witness: a Verify presented an id other than the bound one and raised.
C4_Witness ==
  /\ last.op = "verify_token"
  /\ last.outcome = "ValueError"
  /\ last.token \in DOMAIN token_db
  /\ token_db[last.token].payment_mandate_id \in MandateIds
  /\ token_db[last.token].payment_mandate_id # last.mid

\* C5: whenever Verify returns without error for a token of the store, its
\* result is a full payment-method record (alias, plan id, type) of the owning
\* account under the token's alias, never an empty result.
C5_VerifyReturnsMethod ==
  (last.op = "verify_token" /\ last.outcome = "ok" /\ last.token \in DOMAIN token_db)
    => IsMethodOf(last.result, token_db[last.token].email_address,
                  token_db[last.token].payment_method_alias)

\* C6: CreateToken, as the store operation and as the handler, fails when the
\* account does not exist or the alias resolves to none of its payment
\* methods, and then the store holds no token for that account and alias.
C6_CreateRejectsUnresolved ==
  (/\ last.op \in {"create_token", "handle_create_payment_credential_token"}
   /\ ~(Truthy(last.email) /\ Truthy(last.alias) /\ Resolvable(last.email, last.alias)))
    => /\ last.outcome = "ValueError"
       /\ \A t \in DOMAIN token_db :
            ~(/\ token_db[t].email_address = last.email
              /\ token_db[t].payment_method_alias = last.alias)

\* C7: token uniqueness -- the tokens returned by the create calls of a run
\* are pairwise different, each is a key of the store, and the store has as
\* many entries as tokens were issued (no issue replaced an entry).
C7_TokensUnique ==
  /\ \A i, j \in 1..Len(issued) : i # j => issued[i] # issued[j]
  /\ \A i \in 1..Len(issued) : issued[i] \in DOMAIN token_db
  /\ Cardinality(DOMAIN token_db) = Len(issued)

\* C7 witness: two tokens were issued for the same account and alias, and the
\* first of them has been bound since.
C7_Witness ==
  /\ Len(issued) = 2
  /\ token_db[issued[1]].email_address = token_db[issued[2]].email_address
  /\ token_db[issued[1]].payment_method_alias = token_db[issued[2]].payment_method_alias
  /\ token_db[issued[1]].payment_mandate_id \in MandateIds

\* C9: BindMandate on a token the store lacks raises and leaves the store as
\* it was; no entry appears for the unknown token.
C9_BindUnknownRejected ==
  [][(/\ last'.op = "update_token"
      /\ last' # last
      /\ last'.token \notin DOMAIN token_db)
       => /\ last'.outcome = "ValueError"
          /\ token_db' = token_db
          /\ last'.token \notin DOMAIN token_db']_vars

\* C9 witness: a bind on an unknown token raised while the store held a token.
C9_Witness ==
  /\ last.op = "update_token"
  /\ last.outcome = "ValueError"
  /\ last.token \notin DOMAIN token_db
  /\ DOMAIN token_db # {}

\* C10: of two update_token calls in flight at once on the same unbound token
\* with different mandate ids, the one that runs first binds its id; when the
\* other runs, the bound id stays, and Verify succeeds for the first id and for
\* no other of the two.
C10_ConcurrentBindsSerialized ==
  [][\A call \in pending :
       (/\ last.op = "update_token"
        /\ last.outcome = "ok"
        /\ last.prior = None
        /\ last.mid \in MandateIds
        /\ call \in last.others
        /\ call.token = last.token
        /\ call.mid \in MandateIds
        /\ call.mid # last.mid
        /\ pending' = pending \ {call}
        /\ last'.op = "update_token")
         => /\ token_db'[call.token].payment_mandate_id = last.mid
            /\ verify_token(token_db', call.token, last.mid).outcome = "ok"
            /\ verify_token(token_db', call.token, call.mid).outcome # "ok"]_vars

\* The store as one token sees it: that token's entry alone, or nothing.
own_entry(db, token) == [t \in (DOMAIN db) \cap {token} |-> db[t]]

\* C11: calls on unrelated tokens do not interfere -- a call on token t leaves
\* the entry of every other token as it was, and what update_token or
\* verify_token does on t (outcome, message, result, t's entry afterwards) is
\* what it would do on a store that holds t's entry alone.
C11_UnrelatedTokensIndependent ==
  [][last' # last =>
       /\ \A t \in DOMAIN token_db :
            t # last'.token => /\ t \in DOMAIN token_db'
                               /\ token_db'[t] = token_db[t]
       /\ last'.op = "update_token" =>
            LET r == update_token(own_entry(token_db, last'.token), last'.token, last'.mid)
            IN /\ last'.outcome = r.outcome
               /\ last'.msg = r.msg
               /\ own_entry(token_db', last'.token) = r.db
       /\ last'.op = "verify_token" =>
            LET r == verify_token(own_entry(token_db, last'.token), last'.token, last'.mid)
            IN /\ last'.outcome = r.outcome
               /\ last'.msg = r.msg
               /\ last'.result = r.result]_vars

\* Two tokens of one account, one just bound by update_token, the other still
\* without a mandate id.
C11_Witness ==
  \E t \in DOMAIN token_db, u \in DOMAIN token_db :
    /\ t # u
    /\ last.op = "update_token"
    /\ last.token = t
    /\ last.prior = None
    /\ token_db[t].email_address = token_db[u].email_address
    /\ token_db[t].payment_mandate_id = <<"m","1">>
    /\ token_db[u].payment_mandate_id = None

\* ------------------------------------------ claims on mandate completion
\* The attempt has extracted a mandate with the given method name.
mandate_method_is(method_name) ==
  /\ mc.mandate # NoneDict
  /\ mc.mandate.method_name = method_name

\* The provider has answered the attempt's request, with or without payment
\* method data.
answered_with_data ==
  /\ mc.responses # <<>>
  /\ has_payment_method_data(mc.responses[1])
answered_without_data ==
  /\ mc.responses # <<>>
  /\ ~has_payment_method_data(mc.responses[1])

\* The kinds of the signals of the attempt, in order.
signal_kinds == [i \in 1..Len(mc.signals) |-> mc.signals[i].kind]

\* C12: a token of the store that is carried by a mandate which reached
\* completion is bound to that mandate's id.
C12_CompletedMandateTokenBound ==
  (/\ mc.phase = "Completed"
   /\ mc.mandate.token_value \in DOMAIN token_db)
    => token_db[mc.mandate.token_value].payment_mandate_id = mc.mandate.payment_mandate_id

C14_SohoCreditSkipsChallenge ==
  (mandate_method_is("SOHO_CREDIT") /\ mc.current_task = "none")
    => /\ \A i \in 1..Len(mc.signals) : mc.signals[i].kind # "requires_input"
       /\ ~mc.running => mc.requests = 1
       /\ answered_with_data =>
            /\ mc.phase = "Completed"
            /\ signal_kinds = <<"complete">>
            /\ mc.credential = get_first_data_part(mc.responses[1])

C14_Witness ==
  /\ mandate_method_is("SOHO_CREDIT")
  /\ mc.current_task = "none"
  /\ mc.attempts = 1
  /\ mc.phase = "Completed"
  /\ mc.credential = CREDENTIAL_DATA

\* C15: a CARD mandate on a first call (no prior task) gets a request for
\* input and the attempt halts in AwaitingChallenge: no completion, no
\* failure, no credential request.
C15_CardFirstCallHalts ==
  (mandate_method_is("CARD") /\ mc.current_task = "none")
    => /\ mc.phase = "AwaitingChallenge"
       /\ mc.requests = 0
       /\ mc.running => mc.signals = <<>>
       /\ ~mc.running => /\ signal_kinds = <<"requires_input">>
                          /\ mc.task = "input_required"

C15_Witness ==
  /\ mandate_method_is("CARD")
  /\ mc.current_task = "none"
  /\ ~mc.running
  /\ signal_kinds = <<"requires_input">>

\* C16: a CARD attempt that resumes a prior task goes on to the credential
\* request when the challenge response is the expected value, and completes
\* on a structured payload; with any other response it gets a new request for
\* input, never a failure, and leaves the task open for the next response.
C16_ResumeChecksChallenge ==
  (mandate_method_is("CARD") /\ mc.current_task = "input_required")
    => IF mc.challenge_response = EXPECTED_CHALLENGE
         THEN /\ \A i \in 1..Len(mc.signals) : mc.signals[i].kind # "requires_input"
              /\ ~mc.running => mc.requests = 1
              /\ answered_with_data => /\ mc.phase = "Completed"
                                        /\ signal_kinds = <<"complete">>
         ELSE /\ mc.phase = "AwaitingChallenge"
              /\ mc.requests = 0
              /\ mc.running => mc.signals = <<>>
              /\ ~mc.running => /\ signal_kinds = <<"requires_input">>
                                 /\ mc.task = "input_required"

\* Challenged on the first call, challenged again after a wrong response,
\* completed after the expected one.
C16_Witness ==
  /\ mandate_method_is("CARD")
  /\ mc.current_task = "input_required"
  /\ mc.challenges = 2
  /\ mc.challenge_response = EXPECTED_CHALLENGE
  /\ mc.phase = "Completed"

\* C17: a request without a payment mandate part goes to Failed; it signals
\* neither completion nor a request for input and sends no credential
\* request.
C17_MissingMandateFails ==
  (/\ mc.phase # "none"
   /\ PAYMENT_MANDATE_DATA_KEY \notin DOMAIN mc.data_parts)
    => /\ mc.requests = 0
       /\ mc.running => (mc.phase = "AwaitingMandate" /\ mc.signals = <<>>)
       /\ ~mc.running =>
            /\ mc.phase = "Failed"
            /\ mc.signals = <<[kind |-> "failed", reason |-> "missing mandate"]>>

C17_Witness ==
  /\ mc.phase = "Failed"
  /\ mc.data_parts = data_parts_of({}, {"123"})

\* An attempt that runs has signalled nothing; one that ended has signalled
\* once, and the signal is the one of the state it ended in.
one_outcome_signal ==
  /\ mc.running => mc.signals = <<>>
  /\ (mc.phase # "none" /\ ~mc.running) =>
       /\ Len(mc.signals) = 1
       /\ mc.signals[1].kind \in {"complete", "failed", "requires_input"}
       /\ mc.signals[1].kind = "complete" <=> mc.phase = "Completed"
       /\ mc.signals[1].kind = "failed" <=> mc.phase = "Failed"
       /\ mc.signals[1].kind = "requires_input" <=> mc.phase = "AwaitingChallenge"

\* C18: every attempt ends with exactly one outcome signal -- completion,
\* failure or a request for input -- and Completed and Failed are terminal:
\* an attempt in one of them takes no further step.
C18_ExactlyOneOutcome ==
  [][/\ one_outcome_signal'
     /\ (mc.phase \in {"Completed", "Failed"} /\ mc'.attempts = mc.attempts)
          => mc' = mc]_vars

\* An attempt that failed on the provider's response, with its one failure
\* signal, in a run where the provider has issued a token.
C18_Witness ==
  /\ mc.phase = "Failed"
  /\ answered_without_data
  /\ Len(mc.signals) = 1
  /\ token_db # <<>>

\* C19: an attempt sends at most one credential request; after the response,
\* whatever it holds, no request is outstanding and none is sent again.
C19_OneCredentialRequest ==
  /\ mc.requests <= 1
  /\ mc.outstanding => (mc.requests = 1 /\ mc.responses = <<>>)
  /\ Len(mc.responses) <= mc.requests
  /\ mc.responses # <<>> => ~mc.outstanding

C19_Witness ==
  /\ answered_without_data
  /\ ~mc.running
  /\ mc.requests = 1
  /\ mc.responses = <<artifacts_list(<<>>)>>

\* C20: a payment receipt whose amount is at or above 100.00 gets one error
\* artifact with status failed and one completion signal, and neither the
\* login request nor the pay request is made.
C20_CeilingFailsClosed ==
  (/\ last.op = "handle_payment_receipt"
   /\ last.receipt # NoneDict
   /\ last.receipt.amount.kind \in {"dict", "number"}
   /\ last.receipt.amount.cents >= CEILING_CENTS)
    => /\ Len(last.artifacts) = 1
       /\ "error" \in DOMAIN last.artifacts[1]
       /\ last.artifacts[1].status = "failed"
       /\ last.completes = 1
       /\ last.calls = <<>>

\* A receipt of exactly 100.00 has been handled.
C20_Witness ==
  /\ last.op = "handle_payment_receipt"
  /\ last.receipt = [amount |-> amount_dict(CEILING_CENTS)]
  /\ last.completes = 1

\* A request to the settlement API that did not succeed: the login not
\* answered 200 with an access token, or the payment not answered 200 or 201.
call_failed(call) ==
  IF call.endpoint = "/api/v1/auth/login" THEN call.outcome # "200"
  ELSE call.outcome \notin {"200", "201"}

\* C21: when the login request or the pay request fails -- connection error,
\* request error (timeouts are request errors), a status that is not success,
\* a login response without access token, any other exception -- the handler
\* raises nothing, emits one error artifact with status failed and signals
\* completion.
C21_SettlementFailuresCaptured ==
  (/\ last.op = "handle_payment_receipt"
   /\ \E i \in 1..Len(last.calls) : call_failed(last.calls[i]))
    => /\ last.outcome = "ok"
       /\ Len(last.artifacts) = 1
       /\ "error" \in DOMAIN last.artifacts[1]
       /\ last.artifacts[1].status = "failed"
       /\ last.completes = 1

\* The login succeeded and the pay request ended in an exception.
C21_Witness ==
  /\ last.op = "handle_payment_receipt"
  /\ Len(last.calls) = 2
  /\ last.calls[1].outcome = "200"
  /\ last.calls[2].outcome = "Exception"
  /\ last.completes = 1

HandlerOps ==
  {"handle_get_shipping_address", "handle_get_credit_status",
   "handle_get_bnpl_quote", "handle_request_biometric_approval",
   "handle_create_payment_credential_token", "handle_payment_receipt"}

\* C23: every run of a handler ends in one of two ways: one or more artifacts
\* and then the completion signal, or a raised error with no completion
\* signal; completion is never signalled with zero artifacts.
C23_HandlerOutputProtocol ==
  last.op \in HandlerOps
    => \/ /\ last.outcome = "ok"
          /\ Len(last.artifacts) >= 1
          /\ last.completes = 1
       \/ /\ last.outcome # "ok"
          /\ last.completes = 0

\* C24: a handler that raises ValueError -- a missing field, an unknown user,
\* an unknown alias -- has added no artifact, has not signalled completion and
\* has left the token store as it was.
C24_ValidationErrorsAbortCleanly ==
  [][(/\ last' # last
      /\ last'.op \in HandlerOps
      /\ last'.outcome = "ValueError")
       => /\ last'.artifacts = <<>>
          /\ last'.completes = 0
          /\ token_db' = token_db
          /\ issued' = issued]_vars

\* The token handler has refused an alias the account does not have, with a
\* token already in the store.
C24_Witness ==
  /\ last.op = "handle_create_payment_credential_token"
  /\ last.outcome = "ValueError"
  /\ last.msg = "Payment method not found"
  /\ token_db # <<>>

\* The last call was a quote request with an amount for an existing account.
quoted ==
  /\ last.op = "handle_get_bnpl_quote"
  /\ last.email \in DOMAIN soho_account_db
  /\ ~last.args.amount.is_none
quoted_over_credit ==
  /\ quoted
  /\ last.args.amount.cents > soho_account_db[last.email].credit_profile.available_credit
quoted_within_credit ==
  /\ quoted
  /\ last.args.amount.cents <= soho_account_db[last.email].credit_profile.available_credit

\* C25: for an amount greater than the account's available credit the quote
\* handler does not raise: it adds one quote artifact with validation status
\* declined, reason insufficient_credit and no plan options, and signals
\* completion.
C25_QuoteDeclinesOverCredit ==
  quoted_over_credit
    => /\ last.outcome = "ok"
       /\ Len(last.artifacts) = 1
       /\ last.artifacts[1].bnpl_quote.validation_status = "declined"
       /\ last.artifacts[1].bnpl_quote.reason = "insufficient_credit"
       /\ "bnpl_options" \notin DOMAIN last.artifacts[1].bnpl_quote
       /\ last.completes = 1

\* 2500.01 was asked of the account with 2500.00 available.
C25_Witness ==
  /\ quoted_over_credit
  /\ last.email = BUGS_EMAIL
  /\ last.args.amount.cents = 250001
  /\ last.completes = 1

\* C26: for an amount that does not exceed the account's available credit the
\* quote is approved and has exactly three plans, in the order pay in full
\* (1 installment, 0%), pay in 4 (4 installments, 0%), 12 month plan (12
\* installments, 5.99%, total the amount times 1.0599 to the nearest cent).
C26_QuoteApprovedWithThreePlans ==
  quoted_within_credit
    => LET q == last.artifacts[1].bnpl_quote
           o == q.bnpl_options
           c == last.args.amount.cents
       IN /\ last.outcome = "ok"
          /\ Len(last.artifacts) = 1
          /\ q.validation_status = "approved"
          /\ Len(o) = 3
          /\ [i \in 1..3 |-> o[i].plan_id] = <<"pay_in_full", "pay_in_4", "pay_in_12">>
          /\ [i \in 1..3 |-> o[i].installments] = <<1, 4, 12>>
          /\ [i \in 1..3 |-> o[i].interest_rate] = <<"0.00%", "0.00%", "5.99%">>
          /\ 2 * ((o[3].total_amount - c) * 10000 - c * 599) <= 10000
          /\ 2 * ((o[3].total_amount - c) * 10000 - c * 599) >= -10000

\* The whole available credit of an account was asked, and approved.
C26_Witness ==
  /\ quoted_within_credit
  /\ last.email = BUGS_EMAIL
  /\ last.args.amount.cents = 250000
  /\ last.artifacts[1].bnpl_quote.validation_status = "approved"

\* C27: in every approved quote, for each of the three plans, the amount per
\* installment times the number of installments is within one cent of the
\* plan's total amount.
C27_InstallmentsSumToTotal ==
  quoted_within_credit
    => \A i \in 1..Len(last.artifacts[1].bnpl_quote.bnpl_options) :
         LET o == last.artifacts[1].bnpl_quote.bnpl_options[i]
             d == o.amount_per_installment * o.installments - o.total_amount
         IN d <= 1 /\ d >= -1

\* C28: the total of pay in 4 is the amount per installment -- the quarter of
\* the amount, rounded to the cent -- times 4, not the requested amount; it
\* differs from the requested amount by at most 2 cents in either direction.
C28_PayIn4TotalIsRoundedQuarterTimes4 ==
  quoted_within_credit
    => LET o == last.artifacts[1].bnpl_quote.bnpl_options[2]
           c == last.args.amount.cents
       IN /\ o.plan_id = "pay_in_4"
          /\ o.total_amount = o.amount_per_installment * 4
          /\ 4 * o.amount_per_installment - c <= 2
          /\ 4 * o.amount_per_installment - c >= -2
          /\ o.total_amount - c <= 2
          /\ o.total_amount - c >= -2

\* The logged order: 48.50 in four installments of 12.12, total 48.48.
C28_Witness ==
  /\ quoted_within_credit
  /\ last.args.amount.cents = 4850
  /\ last.artifacts[1].bnpl_quote.bnpl_options[2].amount_per_installment = 1212
  /\ last.artifacts[1].bnpl_quote.bnpl_options[2].total_amount = 4848

\* C29: the due dates of an approved quote, in days after the quote date: pay
\* in full has the one date +30; pay in 4 has 0, +14, +28, +42; the 12 month
\* plan has +30*i for i = 1..12; every plan has as many due dates as
\* installments, in strictly increasing order.
C29_DueDateSchedule ==
  quoted_within_credit
    => LET o == last.artifacts[1].bnpl_quote.bnpl_options
       IN /\ o[1].due_dates = <<30>>
          /\ o[2].due_dates = <<0, 14, 28, 42>>
          /\ o[3].due_dates = <<30, 60, 90, 120, 150, 180, 210, 240, 270, 300, 330, 360>>
          /\ \A i \in 1..Len(o) :
               /\ Len(o[i].due_dates) = o[i].installments
               /\ \A j \in 1..(Len(o[i].due_dates) - 1) :
                    o[i].due_dates[j] < o[i].due_dates[j + 1]

C29_Witness ==
  /\ quoted_within_credit
  /\ last.email = USER_EMAIL
  /\ last.args.amount.cents = 413942
  /\ Len(last.artifacts[1].bnpl_quote.bnpl_options[3].due_dates) = 12

\* C30: the biometric approval handler raises the missing-field error when
\* one of user_email, amount, merchant, payment_plan is absent, and when all
\* four are present for an existing account it adds exactly one attestation
\* artifact with approval status authorized and signals completion.
C30_BiometricApproval ==
  last.op = "handle_request_biometric_approval"
    => IF \/ last.email = None
          \/ last.args.amount.is_none
          \/ last.args.merchant = None
          \/ last.args.payment_plan = NoneDict
         THEN /\ last.outcome = "ValueError"
              /\ last.msg = "user_email, amount, merchant, and payment_plan are required"
       ELSE last.email \in DOMAIN soho_account_db
              => /\ last.outcome = "ok"
                 /\ Len(last.artifacts) = 1
                 /\ last.artifacts[1].biometric_approval.approval_status = "authorized"
                 /\ last.completes = 1

\* C31: a shipping address request that names a key the account does not have
\* does not raise: it is answered with the account's default shipping address
\* as one artifact, followed by completion.
C31_UnknownKeyFallsBackToDefault ==
  (/\ last.op = "handle_get_shipping_address"
   /\ last.email \in DOMAIN soho_account_db
   /\ Truthy(last.args.address_key)
   /\ last.args.address_key \notin DOMAIN shipping_addresses(soho_account_db[last.email]))
    => /\ last.outcome = "ok"
       /\ last.artifacts =
            <<[contact_address |->
                 contact_address(soho_account_db[last.email].shipping_address)]>>
       /\ last.completes = 1

\* The address "work" of user@example.com was asked for and John Smith's
\* default address came back.
C31_Witness ==
  /\ last.op = "handle_get_shipping_address"
  /\ last.email = USER_EMAIL
  /\ last.args.address_key = <<"w","o","r","k">>
  /\ last.outcome = "ok"
  /\ Len(last.artifacts) = 1
  /\ last.artifacts[1].contact_address.recipient = "John Smith"

\* C34: the token store only grows: an issued token stays in the store, its
\* owning account and its alias never change, and its mandate binding changes
\* only from unbound (None) to bound.
C34_TokenStoreOnlyGrows ==
  [][\A t \in DOMAIN token_db :
       /\ t \in DOMAIN token_db'
       /\ token_db'[t].email_address = token_db[t].email_address
       /\ token_db'[t].payment_method_alias = token_db[t].payment_method_alias
       /\ (token_db'[t].payment_mandate_id # token_db[t].payment_mandate_id
             => /\ token_db[t].payment_mandate_id = None
                /\ token_db'[t].payment_mandate_id # None)]_vars

\* The part of C34 that does not concern the binding: tokens stay, with their
\* account and alias.
C34_TokensStayWithOwnerAndAlias ==
  [][\A t \in DOMAIN token_db :
       /\ t \in DOMAIN token_db'
       /\ token_db'[t].email_address = token_db[t].email_address
       /\ token_db'[t].payment_method_alias = token_db[t].payment_method_alias]_vars

\* The requests handle_payment_receipt made to the settlement API.
login_calls == SelectSeq(last.calls, LAMBDA c : c.endpoint = "/api/v1/auth/login")
pay_calls == SelectSeq(last.calls, LAMBDA c : c.endpoint = "/api/v1/agent/pay")

\* C35: handle_payment_receipt makes at most one login call and at most one
\* pay call per request; a pay call is made only after the login call of the
\* same request was answered with status 200 and an access token; when the
\* login fails or brings no token there is no pay call.
C35_PayOnlyAfterLogin ==
  last.op = "handle_payment_receipt"
    => /\ Len(login_calls) <= 1
       /\ Len(pay_calls) <= 1
       /\ Len(last.calls) = Len(login_calls) + Len(pay_calls)
       /\ pay_calls # <<>>
            => /\ Len(last.calls) = 2
               /\ last.calls[1].endpoint = "/api/v1/auth/login"
               /\ last.calls[1].outcome = "200"
               /\ last.calls[2].endpoint = "/api/v1/agent/pay"
       /\ (login_calls # <<>> /\ login_calls[1].outcome # "200")
            => pay_calls = <<>>

\* A login answered with 200 and no access token: the request ended with the
\* one login call and an error artifact.
C35_Witness ==
  /\ last.op = "handle_payment_receipt"
  /\ Len(last.calls) = 1
  /\ last.calls[1].outcome = "200 without accessToken"
  /\ last.artifacts = <<error_artifact("No access token in login response")>>

\* C32: no request and no token-store operation changes the account ledger:
\* every account keeps its initial credit profile, addresses and payment
\* methods, also after an approved quote and after a settled payment.
C32_LedgerUnchanged ==
  /\ DOMAIN account_db = DOMAIN soho_account_db
  /\ \A e \in DOMAIN soho_account_db :
       /\ account_db[e].credit_profile = soho_account_db[e].credit_profile
       /\ account_db[e].shipping_address = soho_account_db[e].shipping_address
       /\ account_db[e].payment_methods = soho_account_db[e].payment_methods

\* A quote of 48.50 was approved for user@example.com, with a token in the
\* store, and the account still has 4139.42 available.
C32_Witness ==
  /\ last.op = "handle_get_bnpl_quote"
  /\ last.email = USER_EMAIL
  /\ last.outcome = "ok"
  /\ last.artifacts[1].bnpl_quote.validation_status = "approved"
  /\ token_db # <<>>
  /\ account_db[USER_EMAIL].credit_profile.available_credit = 413942

\* C33: attach_biometric_attestation sets the mandate's user authorization to
\* the serialized attestation of the stored biometric approval, unmodified,
\* and leaves the contents of the payment mandate (id, total, payment
\* response, token reference) as they were created.
C33_AttestationAttachedVerbatim ==
  [][(last'.op = "attach_biometric_attestation" /\ last'.outcome = "ok")
       => /\ state'.signed_payment_mandate # Absent
          /\ json_loads(state'.signed_payment_mandate.v.user_authorization)
               = state.biometric_approval.v.attestation
          /\ state'.signed_payment_mandate.v.payment_mandate_contents
               = state.payment_mandate.v.payment_mandate_contents
          /\ state'.payment_mandate.v.payment_mandate_contents
               = state.payment_mandate.v.payment_mandate_contents]_vars

\* A mandate that carries the provider's token was signed with the
\* attestation of user_123.
C33_Witness ==
  /\ last.op = "attach_biometric_attestation"
  /\ last.outcome = "ok"
  /\ state.signed_payment_mandate # Absent
  /\ state.signed_payment_mandate.v.user_authorization # None
  /\ state.signed_payment_mandate.v.payment_mandate_contents.payment_response.details.token.value
       = token_value(0, USER_EMAIL)
  /\ json_loads(state.signed_payment_mandate.v.user_authorization).signature
       = <<"0x9f8e7d6c5b4a_", "user_123">>

\* C36: when create_payment_credential_token returns, the token value it
\* stored is the one the provider's store issued for the request, if it
\* issued one; the status is success exactly when a non-empty token value was
\* found; and the value and the raw response are in state in the success and
\* in the error case alike.
C36_TokenHandOff ==
  [][(last'.op = "create_payment_credential_token" /\ last'.outcome = "ok")
       => /\ state'.payment_credential_token # Absent
          /\ state'.payment_credential_token.v.value = last'.token
          /\ "raw" \in DOMAIN state'.payment_credential_token.v
          /\ (last'.result.status = "success") <=> Truthy(last'.token)
          /\ last'.result.status \in {"success", "error"}
          /\ issued' # issued
               => /\ last'.token = issued'[Len(issued')]
                  /\ last'.token \in DOMAIN token_db'
                  /\ last'.token \notin DOMAIN token_db
                  /\ last'.result = [status |-> "success", token |-> last'.token]
          /\ issued' = issued
               => /\ last'.token = None
                  /\ last'.result.status = "error"]_vars

\* The first token of user@example.com went from the provider's store into
\* the agent's state.
C36_Witness ==
  /\ last.op = "create_payment_credential_token"
  /\ last.result = [status |-> "success", token |-> token_value(0, USER_EMAIL)]
  /\ state.payment_credential_token # Absent
  /\ state.payment_credential_token.v.value = token_value(0, USER_EMAIL)
  /\ token_value(0, USER_EMAIL) \in DOMAIN token_db

\* The stored quote has an option with this plan id.
quote_has_plan(quote, plan_id) ==
  /\ quote # Absent
  /\ quote.v # NoneDict
  /\ "bnpl_options" \in DOMAIN quote.v
  /\ \E i \in 1..Len(quote.v.bnpl_options) : quote.v.bnpl_options[i].plan_id = plan_id

\* C37: select_payment_plan succeeds only when a quote is stored and plan_id
\* is the id of one of its options; then the stored selected plan is that
\* option and the stored credit authorization token is the one of that quote.
\* With no quote or an unknown plan id it raises, and the stored selected plan
\* and authorization token stay as they were.
C37_PlanSelection ==
  [][last'.op = "select_payment_plan"
       => /\ last'.outcome = "ok"
               => /\ quote_has_plan(state.bnpl_quote, last'.args.plan_id)
                  /\ state'.selected_payment_plan # Absent
                  /\ state'.selected_payment_plan.v.plan_id = last'.args.plan_id
                  /\ \E i \in 1..Len(state.bnpl_quote.v.bnpl_options) :
                       state'.selected_payment_plan.v = state.bnpl_quote.v.bnpl_options[i]
                  /\ state'.credit_authorization_token
                       = Stored(state.bnpl_quote.v.credit_authorization_token)
          /\ ~quote_has_plan(state.bnpl_quote, last'.args.plan_id)
               => /\ last'.outcome # "ok"
                  /\ state'.selected_payment_plan = state.selected_payment_plan
                  /\ state'.credit_authorization_token = state.credit_authorization_token]_vars

\* An unknown plan id was refused after the 12 month plan had been selected,
\* and the 12 month plan is still the selected one.
C37_Witness ==
  /\ last.op = "select_payment_plan"
  /\ last.outcome = "ValueError"
  /\ last.args.plan_id = "pay_in_6"
  /\ state.selected_payment_plan # Absent
  /\ state.selected_payment_plan.v.plan_id = "pay_in_12"
  /\ state.credit_authorization_token = Stored(state.bnpl_quote.v.credit_authorization_token)

\* C38: for a cart total of 100.00 or more get_bnpl_options raises without
\* having sent a request to the credentials provider and leaves the stored
\* quote as it was; a quote request is sent only for a total below 100.00.
C38_PurchasingSideCeiling ==
  [][(last'.op = "get_bnpl_options" /\ state.cart_mandate # Absent)
       => /\ state.cart_mandate.v.total >= 10000
               => /\ last'.outcome = "RuntimeError"
                  /\ last'.calls = <<>>
                  /\ state'.bnpl_quote = state.bnpl_quote
          /\ last'.calls # <<>>
               => /\ state.cart_mandate.v.total < 10000
                  /\ Len(last'.calls) = 1
                  /\ last'.calls[1].amount = state.cart_mandate.v.total]_vars

\* A quote for 99.99 is stored, the cart went to 100.00, and the next request
\* for options was refused with the quote still in place.
C38_Witness ==
  /\ last.op = "get_bnpl_options"
  /\ last.outcome = "RuntimeError"
  /\ last.calls = <<>>
  /\ state.cart_mandate # Absent
  /\ state.cart_mandate.v.total = 10000
  /\ state.bnpl_quote # Absent
  /\ state.bnpl_quote.v # NoneDict
  /\ state.bnpl_quote.v.transaction_amount = 9999

====
